---- MODULE Spec2Model ----
(***************************************************************************)
(* Model of the SWR front end (frontend.cpp): topology arithmetic, the     *)
(* SIMD batch masks, the per-draw loop of ProcessDraw (8-wide build), the  *)
(* stages it calls and the per-thread data they keep.                      *)
(*                                                                         *)
(* Unsigned 32-bit counts are ordinary integers here: every count the      *)
(* model draws stays far below 2^31, and every subtraction of the source   *)
(* is written as the source writes it, so a subtraction that would wrap    *)
(* in C shows up as a negative number.                                     *)
(***************************************************************************)
EXTENDS Integers, Sequences, FiniteSets, TLC

VARIABLES
    call,        \* the last topology-arithmetic call: function, arguments, result
    pc,          \* ProcessDraw: position in the draw loop
    work,        \* DRAW_WORK: numVerts, numInstances, cut positions of the index buffer
    state,       \* API_STATE snapshot and the template flags of the draw
    endVertex,   \* ProcessDraw local
    instanceNum, \* ProcessDraw local (instance loop counter)
    i,           \* ProcessDraw local (fetch cursor)
    pa,          \* PA_STATE chosen by PA_FACTORY
    assembled,   \* result of the last pa.Assemble: ok flag and the primitives
    log,         \* calls made by the draw, in order
    fn,          \* the last call of a batch or GS-buffer helper: arguments, result
    so,          \* StreamOut: buffers, dynamic state and position in the call
    gs,          \* GeometryShaderStage: GS state, position and calls made
    tileMgr,     \* a front-end handler of a sync or shutdown and what it enqueues
    ts,          \* one worker's tessellation data and its TessellationStages calls
    threads      \* the THREAD variables of each worker and its position in a draw

vars == <<call, pc, work, state, endVertex, instanceNum, i, pa, assembled, log,
          fn, so, gs, tileMgr, ts, threads>>

workerVars == <<tileMgr, ts, threads>>

stageVars == <<fn, so, gs, workerVars>>

drawVars == <<pc, work, state, endVertex, instanceNum, i, pa, assembled, log>>

(***************************************************************************)
(* Bounds of the model.                                                    *)
(***************************************************************************)
MaxCount == 70

MaxVerts == 9

MaxInstances == 2

MaxCuts == 1

\* Largest index or remaining-work count given to the batch helpers.
MaxIndex == 20

\* Largest maxNumVerts of a geometry shader.
MaxGsVerts == 40

\* Most vertices one geometry-shader invocation emits for one primitive.
MaxStreamVerts == 9

\* Largest record (dwords) a stream-out function writes per primitive.
MaxSoRecord == 2

\* Most primitives held by the assembler given to StreamOut.
MaxSoPrims == 3

\* Most StreamOut calls of one draw.
MaxSoCalls == 2

\* Largest gsState.instanceCount.
MaxGsInstances == 2

\* Most input primitives of one GeometryShaderStage call.
MaxInputPrims == 2

\* Most vertices the geometry shader emits for one input primitive.
MaxEmit == 3

\* Most worker threads of the thread pool (threadPool.numThreads).
MaxThreads == 4

\* Largest threadPool.numaMask.
MaxNumaMask == 3

\* Most patches of the batches of patches beyond a multiple of the width.
MaxPatches == 2

\* Largest tsState.numDsOutputAttribs.
MaxDsAttribs == 2

\* Most domain points the tessellator makes of one patch.
MaxDomainPoints == 17

\* Most primitives the tessellator makes of one patch.
MaxTessPrims == 17

\* Most macrotiles a clear, store or discard of the model enqueues, and
\* most rows (columns for a discard) it walks; a handler that would go on
\* is not followed further.
MaxEnqueue == 4

\* Largest index count of a draw of the 16-wide build.
MaxVerts16 == 20

(***************************************************************************)
(* PRIMITIVE_TOPOLOGY enumerators.                                         *)
(***************************************************************************)
TOP_UNKNOWN == 0

TOP_POINT_LIST == 1

TOP_LINE_LIST == 2

TOP_LINE_STRIP == 3

TOP_TRIANGLE_LIST == 4

TOP_TRIANGLE_STRIP == 5

TOP_TRIANGLE_FAN == 6

TOP_QUAD_LIST == 7

TOP_QUAD_STRIP == 8

TOP_LINE_LIST_ADJ == 9

TOP_LISTSTRIP_ADJ == 10

TOP_TRI_LIST_ADJ == 11

TOP_TRI_STRIP_ADJ == 12

TOP_TRI_STRIP_REVERSE == 13

TOP_POLYGON == 14

TOP_RECT_LIST == 15

TOP_LINE_LOOP == 16

TOP_POINT_LIST_BF == 17

TOP_LINE_STRIP_CONT == 18

TOP_LINE_STRIP_BF == 19

TOP_LINE_STRIP_CONT_BF == 20

TOP_TRIANGLE_FAN_NOSTIPPLE == 22

TOP_TRIANGLE_DISC == 23

TOP_PATCHLIST_BASE == 31

\* TOP_PATCHLIST_1 .. TOP_PATCHLIST_32 follow the base enumerator.
PatchLists == {TOP_PATCHLIST_BASE + k : k \in 1..32}

\* The nine enumerators the switch statements group under SWR_INVALID.
InvalidCases ==
    {TOP_POLYGON, TOP_POINT_LIST_BF, TOP_LINE_STRIP_CONT, TOP_LINE_STRIP_BF,
     TOP_LINE_STRIP_CONT_BF, TOP_TRIANGLE_FAN_NOSTIPPLE, TOP_TRI_STRIP_REVERSE,
     TOP_PATCHLIST_BASE, TOP_UNKNOWN}

\* Every enumerator of PRIMITIVE_TOPOLOGY.
Topologies ==
    {TOP_POINT_LIST, TOP_LINE_LIST, TOP_LINE_STRIP, TOP_TRIANGLE_LIST,
     TOP_TRIANGLE_STRIP, TOP_TRIANGLE_FAN, TOP_QUAD_LIST, TOP_QUAD_STRIP,
     TOP_LINE_LIST_ADJ, TOP_LISTSTRIP_ADJ, TOP_TRI_LIST_ADJ, TOP_TRI_STRIP_ADJ,
     TOP_RECT_LIST, TOP_LINE_LOOP, TOP_TRIANGLE_DISC}
    \cup PatchLists \cup InvalidCases

(***************************************************************************)
(* GetNumPrims: number of primitives for a vertex/index count.             *)
(***************************************************************************)
GetNumPrims(mode, numPrims) ==
    CASE mode = TOP_POINT_LIST -> numPrims
      [] mode = TOP_TRIANGLE_LIST -> numPrims \div 3
      [] mode = TOP_TRIANGLE_STRIP -> IF numPrims < 3 THEN 0 ELSE numPrims - 2
      [] mode = TOP_TRIANGLE_FAN -> IF numPrims < 3 THEN 0 ELSE numPrims - 2
      [] mode = TOP_TRIANGLE_DISC -> IF numPrims < 2 THEN 0 ELSE numPrims - 1
      [] mode = TOP_QUAD_LIST -> numPrims \div 4
      [] mode = TOP_QUAD_STRIP -> IF numPrims < 4 THEN 0 ELSE (numPrims - 2) \div 2
      [] mode = TOP_LINE_STRIP -> IF numPrims < 2 THEN 0 ELSE numPrims - 1
      [] mode = TOP_LINE_LIST -> numPrims \div 2
      [] mode = TOP_LINE_LOOP -> numPrims
      [] mode = TOP_RECT_LIST -> numPrims \div 3
      [] mode = TOP_LINE_LIST_ADJ -> numPrims \div 4
      [] mode = TOP_LISTSTRIP_ADJ -> IF numPrims < 3 THEN 0 ELSE numPrims - 3
      [] mode = TOP_TRI_LIST_ADJ -> numPrims \div 6
      [] mode = TOP_TRI_STRIP_ADJ -> IF numPrims < 4 THEN 0 ELSE (numPrims \div 2) - 2
      [] mode \in PatchLists -> numPrims \div (mode - TOP_PATCHLIST_BASE)
      [] OTHER -> 0

\* TRUE iff GetNumPrims reaches SWR_INVALID for this topology.
GetNumPrims_Invalid(mode) == mode \in InvalidCases

(***************************************************************************)
(* GetNumVerts: number of vertices for a primitive count.                  *)
(***************************************************************************)
\* GetNumVerts with the zero test of the strip case left out.
GetNumVerts_NoZeroTest(mode, numPrims) ==
    CASE mode = TOP_POINT_LIST -> numPrims
      [] mode = TOP_TRIANGLE_LIST -> numPrims * 3
      [] mode = TOP_TRIANGLE_STRIP -> numPrims + 2
      [] mode = TOP_TRIANGLE_FAN -> IF numPrims # 0 THEN numPrims + 2 ELSE 0
      [] mode = TOP_TRIANGLE_DISC -> IF numPrims # 0 THEN numPrims + 1 ELSE 0
      [] mode = TOP_QUAD_LIST -> numPrims * 4
      [] mode = TOP_QUAD_STRIP -> IF numPrims # 0 THEN numPrims * 2 + 2 ELSE 0
      [] mode = TOP_LINE_STRIP -> IF numPrims # 0 THEN numPrims + 1 ELSE 0
      [] mode = TOP_LINE_LIST -> numPrims * 2
      [] mode = TOP_LINE_LOOP -> numPrims
      [] mode = TOP_RECT_LIST -> numPrims * 3
      [] mode = TOP_LINE_LIST_ADJ -> numPrims * 4
      [] mode = TOP_LISTSTRIP_ADJ -> IF numPrims # 0 THEN numPrims + 3 ELSE 0
      [] mode = TOP_TRI_LIST_ADJ -> numPrims * 6
      [] mode = TOP_TRI_STRIP_ADJ -> IF numPrims # 0 THEN (numPrims + 2) * 2 ELSE 0
      [] mode \in PatchLists -> numPrims * (mode - TOP_PATCHLIST_BASE)
      [] OTHER -> 0

GetNumVerts(mode, numPrims) ==
    CASE mode = TOP_POINT_LIST -> numPrims
      [] mode = TOP_TRIANGLE_LIST -> numPrims * 3
      [] mode = TOP_TRIANGLE_STRIP -> IF numPrims # 0 THEN numPrims + 2 ELSE 0
      [] mode = TOP_TRIANGLE_FAN -> IF numPrims # 0 THEN numPrims + 2 ELSE 0
      [] mode = TOP_TRIANGLE_DISC -> IF numPrims # 0 THEN numPrims + 1 ELSE 0
      [] mode = TOP_QUAD_LIST -> numPrims * 4
      [] mode = TOP_QUAD_STRIP -> IF numPrims # 0 THEN numPrims * 2 + 2 ELSE 0
      [] mode = TOP_LINE_STRIP -> IF numPrims # 0 THEN numPrims + 1 ELSE 0
      [] mode = TOP_LINE_LIST -> numPrims * 2
      [] mode = TOP_LINE_LOOP -> numPrims
      [] mode = TOP_RECT_LIST -> numPrims * 3
      [] mode = TOP_LINE_LIST_ADJ -> numPrims * 4
      [] mode = TOP_LISTSTRIP_ADJ -> IF numPrims # 0 THEN numPrims + 3 ELSE 0
      [] mode = TOP_TRI_LIST_ADJ -> numPrims * 6
      [] mode = TOP_TRI_STRIP_ADJ -> IF numPrims # 0 THEN (numPrims + 2) * 2 ELSE 0
      [] mode \in PatchLists -> numPrims * (mode - TOP_PATCHLIST_BASE)
      [] OTHER -> 0

\* TRUE iff GetNumVerts reaches SWR_INVALID for this topology.
GetNumVerts_Invalid(mode) == mode \in InvalidCases

(***************************************************************************)
(* NumVertsPerPrim: vertices per primitive, with or without adjacency.     *)
(***************************************************************************)
\* The first switch with the TOP_LINE_STRIP label among the triangle cases.
NumVertsPerPrim_Base_StripAsTri(topology) ==
    CASE topology \in {TOP_POINT_LIST, TOP_POINT_LIST_BF} -> 1
      [] topology \in {TOP_LINE_LIST, TOP_LINE_LIST_ADJ,
                       TOP_LINE_LOOP, TOP_LINE_STRIP_CONT, TOP_LINE_STRIP_BF,
                       TOP_LISTSTRIP_ADJ} -> 2
      [] topology \in {TOP_TRIANGLE_LIST, TOP_TRIANGLE_STRIP, TOP_TRIANGLE_FAN,
                       TOP_TRI_LIST_ADJ, TOP_TRI_STRIP_ADJ, TOP_TRI_STRIP_REVERSE,
                       TOP_RECT_LIST, TOP_LINE_STRIP} -> 3
      [] topology \in {TOP_QUAD_LIST, TOP_QUAD_STRIP} -> 4
      [] topology \in PatchLists -> topology - TOP_PATCHLIST_BASE
      [] OTHER -> 0

\* The first switch: numVerts before the adjacency override.
NumVertsPerPrim_Base(topology) ==
    CASE topology \in {TOP_POINT_LIST, TOP_POINT_LIST_BF} -> 1
      [] topology \in {TOP_LINE_LIST, TOP_LINE_STRIP, TOP_LINE_LIST_ADJ,
                       TOP_LINE_LOOP, TOP_LINE_STRIP_CONT, TOP_LINE_STRIP_BF,
                       TOP_LISTSTRIP_ADJ} -> 2
      [] topology \in {TOP_TRIANGLE_LIST, TOP_TRIANGLE_STRIP, TOP_TRIANGLE_FAN,
                       TOP_TRI_LIST_ADJ, TOP_TRI_STRIP_ADJ, TOP_TRI_STRIP_REVERSE,
                       TOP_RECT_LIST} -> 3
      [] topology \in {TOP_QUAD_LIST, TOP_QUAD_STRIP} -> 4
      [] topology \in PatchLists -> topology - TOP_PATCHLIST_BASE
      [] OTHER -> 0

\* NumVertsPerPrim with the triangle cases of the adjacency switch left out.
NumVertsPerPrim_AdjIgnored(topology, includeAdjVerts) ==
    IF includeAdjVerts /\ topology \in {TOP_LISTSTRIP_ADJ, TOP_LINE_LIST_ADJ}
    THEN 4
    ELSE NumVertsPerPrim_Base(topology)

NumVertsPerPrim(topology, includeAdjVerts) ==
    IF includeAdjVerts /\ topology \in {TOP_LISTSTRIP_ADJ, TOP_LINE_LIST_ADJ}
    THEN 4
    ELSE IF includeAdjVerts /\ topology \in {TOP_TRI_STRIP_ADJ, TOP_TRI_LIST_ADJ}
    THEN 6
    ELSE NumVertsPerPrim_Base(topology)

\* TRUE iff NumVertsPerPrim reaches SWR_INVALID (the default label of the
\* first switch) for this topology.
NumVertsPerPrim_Invalid(topology) ==
    topology \notin
        ({TOP_POINT_LIST, TOP_POINT_LIST_BF,
          TOP_LINE_LIST, TOP_LINE_STRIP, TOP_LINE_LIST_ADJ, TOP_LINE_LOOP,
          TOP_LINE_STRIP_CONT, TOP_LINE_STRIP_BF, TOP_LISTSTRIP_ADJ,
          TOP_TRIANGLE_LIST, TOP_TRIANGLE_STRIP, TOP_TRIANGLE_FAN,
          TOP_TRI_LIST_ADJ, TOP_TRI_STRIP_ADJ, TOP_TRI_STRIP_REVERSE,
          TOP_RECT_LIST, TOP_QUAD_LIST, TOP_QUAD_STRIP} \cup PatchLists)

\* ProcessDraw's pruning of a non-indexed draw to whole primitives.
PruneToPrims(topology, numVerts) ==
    GetNumVerts(topology, GetNumPrims(topology, numVerts))

(***************************************************************************)
(* Topology arithmetic as called by the front end: one call per step, its  *)
(* arguments drawn from every enumerator and every count up to MaxCount.   *)
(***************************************************************************)
NoCall ==
    [fn |-> "none", mode |-> TOP_UNKNOWN, n |-> 0, adj |-> FALSE,
     ret |-> 0, invalid |-> FALSE]

Call_GetNumPrims ==
    /\ call.fn = "none"
    /\ \E mode \in Topologies, n \in 0..MaxCount :
          call' = [fn |-> "GetNumPrims", mode |-> mode, n |-> n, adj |-> FALSE,
                   ret |-> GetNumPrims(mode, n),
                   invalid |-> GetNumPrims_Invalid(mode)]
    /\ UNCHANGED <<drawVars, stageVars>>

Call_GetNumVerts ==
    /\ call.fn = "none"
    /\ \E mode \in Topologies, n \in 0..MaxCount :
          call' = [fn |-> "GetNumVerts", mode |-> mode, n |-> n, adj |-> FALSE,
                   ret |-> GetNumVerts(mode, n),
                   invalid |-> GetNumVerts_Invalid(mode)]
    /\ UNCHANGED <<drawVars, stageVars>>

Call_NumVertsPerPrim ==
    /\ call.fn = "none"
    /\ \E topology \in Topologies, includeAdjVerts \in BOOLEAN :
          call' = [fn |-> "NumVertsPerPrim", mode |-> topology, n |-> 0,
                   adj |-> includeAdjVerts,
                   ret |-> NumVertsPerPrim(topology, includeAdjVerts),
                   invalid |-> NumVertsPerPrim_Invalid(topology)]
    /\ UNCHANGED <<drawVars, stageVars>>

\* The call has returned; the next one can be made.
Call_Return ==
    /\ call.fn # "none"
    /\ call' = NoCall
    /\ UNCHANGED <<drawVars, stageVars>>

\* endVertex = GetNumVerts(topology, GetNumPrims(topology, numVerts))
Call_PruneToPrims ==
    /\ call.fn = "none"
    /\ \E mode \in Topologies, n \in 0..MaxCount :
          call' = [fn |-> "PruneToPrims", mode |-> mode, n |-> n, adj |-> FALSE,
                   ret |-> PruneToPrims(mode, n),
                   invalid |-> GetNumPrims_Invalid(mode)]
    /\ UNCHANGED <<drawVars, stageVars>>


(***************************************************************************)
(* SIMD batch masks.                                                       *)
(***************************************************************************)
KNOB_SIMD_WIDTH == 8

\* GenMask: ((1U << numBits) - 1)
GenMask(numBits) == 2^numBits - 1

\* GenerateMask with the clamp to the remaining work left out.
GenerateMask_Full(numItemsRemaining) == 2^KNOB_SIMD_WIDTH - 1

\* GenerateMask: lane mask of min(KNOB_SIMD_WIDTH, remaining) low bits.
GenerateMask(numItemsRemaining) ==
    LET numActive == IF numItemsRemaining >= KNOB_SIMD_WIDTH
                     THEN KNOB_SIMD_WIDTH
                     ELSE numItemsRemaining
    IN  IF numActive > 0 THEN 2^numActive - 1 ELSE 0

\* GetNumInvocations with the clamp to the batch width left out.
GetNumInvocations_Unclamped(curIndex, maxIndex) == maxIndex - curIndex

\* GetNumInvocations (8-wide build).  remainder is a uint32_t: when curIndex
\* is above maxIndex the difference wraps to 2^32 + (maxIndex - curIndex),
\* which is above any batch width.
GetNumInvocations(curIndex, maxIndex) ==
    LET remainder == maxIndex - curIndex
    IN  IF remainder < 0 \/ remainder >= KNOB_SIMD_WIDTH
        THEN KNOB_SIMD_WIDTH
        ELSE remainder

(***************************************************************************)
(* Primitive assembler (pa.h).  A PA is a record                           *)
(*   kind       "OPT" (linear) or "CUT" (cut-indexed)                      *)
(*   topology, numVerts                                                    *)
(*   batches    SIMD vertex batches handed out by GetNextVsOutput          *)
(*   complete   primitives already passed by NextPrim                      *)
(*   cuts       vertex positions whose cut bit is set                      *)
(*   formed     the primitives formed so far, in stream order              *)
(*   processCutVerts  a vertex with a cut bit is a vertex of the strip it  *)
(*              ends (TRUE) or is dropped (FALSE)                          *)
(* A primitive is the tuple of the positions of its vertices in the        *)
(* vertex stream of the instance.  Winding order is not modelled.          *)
(***************************************************************************)
\* Topologies the draw model assembles.
DrawTopologies ==
    {TOP_POINT_LIST, TOP_LINE_LIST, TOP_LINE_STRIP, TOP_TRIANGLE_LIST,
     TOP_TRIANGLE_STRIP}

\* Vertices of primitive k (from 0) of a run that starts at position 0.
PrimVerts(topology, k) ==
    CASE topology = TOP_POINT_LIST -> <<k>>
      [] topology = TOP_LINE_LIST -> <<2 * k, 2 * k + 1>>
      [] topology = TOP_LINE_STRIP -> <<k, k + 1>>
      [] topology = TOP_TRIANGLE_LIST -> <<3 * k, 3 * k + 1, 3 * k + 2>>
      [] topology = TOP_TRIANGLE_STRIP -> <<k, k + 1, k + 2>>

\* Primitives of one uncut run of len vertices that starts at position start.
RunPrims(topology, start, len) ==
    [k \in 1..GetNumPrims(topology, len) |->
        [j \in 1..Len(PrimVerts(topology, k - 1)) |->
            PrimVerts(topology, k - 1)[j] + start]]

\* Primitives of positions v..avail-1, the current run having started at start.
RECURSIVE CutWalk(_, _, _, _, _, _)
CutWalk(topology, v, start, avail, cuts, processCutVerts) ==
    IF v >= avail
    THEN RunPrims(topology, start, avail - start)
    ELSE IF v \in cuts
    THEN RunPrims(topology, start,
                  IF processCutVerts THEN v + 1 - start ELSE v - start)
         \o CutWalk(topology, v + 1, v + 1, avail, cuts, processCutVerts)
    ELSE CutWalk(topology, v + 1, start, avail, cuts, processCutVerts)

Min(a, b) == IF a < b THEN a ELSE b

\* Vertices of the stream the PA has been handed so far.
PA_Avail(p) == Min(p.batches * p.simdWidth, p.numVerts)

\* Every primitive the PA can form: the linear PA from the whole stream (it
\* is gated by the batches handed out, see PA_CanAssemble), the cut-indexed
\* PA from the vertices and cut bits handed to it so far.
PA_AllPrims(p) ==
    IF p.kind = "CUT"
    THEN CutWalk(p.topology, 0, 0, PA_Avail(p), p.cuts, p.processCutVerts)
    ELSE RunPrims(p.topology, 0, p.numVerts)

\* Primitives formed and not yet passed by NextPrim.
PA_NumPending(p) == Len(p.formed) - p.complete

\* pa.NumPrims(): primitives of the current SIMD batch of primitives.
PA_NumPrims(p) == Min(p.simdWidth, PA_NumPending(p))

\* Last vertex position that primitive k of an uncut stream reads.
PrimLastVert(topology, k) ==
    PrimVerts(topology, k)[Len(PrimVerts(topology, k))]

\* Whether Assemble succeeds.  The linear PA assembles a SIMD batch of
\* primitives once the vertex batches that a full batch of primitives reads
\* have all been handed out; the cut-indexed PA once a full batch of
\* primitives is pending or the stream has ended with primitives pending.
PA_CanAssemble(p) ==
    IF p.kind = "CUT"
    THEN \/ PA_NumPending(p) >= p.simdWidth
         \/ PA_Avail(p) = p.numVerts /\ PA_NumPending(p) > 0
    ELSE /\ PA_NumPending(p) > 0
         /\ p.batches * p.simdWidth >
                PrimLastVert(p.topology, p.complete + p.simdWidth - 1)

\* pa.HasWork()
PA_HasWork(p) ==
    IF p.kind = "CUT"
    THEN PA_Avail(p) < p.numVerts \/ PA_NumPending(p) > 0
    ELSE PA_NumPending(p) > 0

\* pa.Assemble(slot, prim): the ok flag and the assembled primitives.
PA_Assemble(p) ==
    IF PA_CanAssemble(p)
    THEN [ok |-> TRUE,
          prims |-> SubSeq(p.formed, p.complete + 1, p.complete + PA_NumPrims(p))]
    ELSE [ok |-> FALSE, prims |-> <<>>]

\* pa.NextPrim(): the PA afterwards.
PA_NextPrim(p) ==
    IF PA_CanAssemble(p)
    THEN [p EXCEPT !.complete = p.complete + PA_NumPrims(p)]
    ELSE p

\* pa.NextPrim(): its return value, given the PA afterwards.
PA_MorePrims(q) == PA_HasWork(q) /\ PA_CanAssemble(q)

\* pa.GetNextVsOutput() / pa.GetNextVsIndices(): one more vertex batch, with
\* the cut bits forwarded for it.
PA_GetNextVsOutput(p, cutBits) ==
    LET q == [p EXCEPT !.batches = p.batches + 1, !.cuts = p.cuts \cup cutBits]
    IN  [q EXCEPT !.formed = PA_AllPrims(q)]

\* pa.Reset()
PA_Reset(p) ==
    LET q == [p EXCEPT !.batches = 0, !.complete = 0, !.cuts = {}]
    IN  [q EXCEPT !.formed = PA_AllPrims(q)]

\* PA_FACTORY: the cut-indexed PA for indexed draws with cut index enabled,
\* the linear PA otherwise.
PA_FACTORY(isIndexed, isCutIndexEnabled, topology, numVerts) ==
    PA_Reset([kind |-> IF isIndexed /\ isCutIndexEnabled THEN "CUT" ELSE "OPT",
              topology |-> topology, numVerts |-> numVerts,
              simdWidth |-> KNOB_SIMD_WIDTH,
              batches |-> 0, complete |-> 0, cuts |-> {}, formed |-> <<>>,
              processCutVerts |-> TRUE])

NoPA == PA_FACTORY(FALSE, FALSE, TOP_POINT_LIST, 0)

(***************************************************************************)
(* ProcessDraw (8-wide build).  Each call the draw makes is appended to    *)
(* log as a record: the callee, the instance and fetch cursor of the loop  *)
(* iteration, the number of the vertex batch within the instance, the      *)
(* lane mask passed, the primitives carried and a boolean result.          *)
(***************************************************************************)
Event(name, inst, cur, batch, mask, prims, flag) ==
    [ev |-> name, inst |-> inst, i |-> cur, batch |-> batch,
     mask |-> mask, prims |-> prims, ok |-> flag]

\* endVertex without the pruning of partial primitives.
EndVertexOf_Unpruned(isIndexed, topology, numVerts) == numVerts

\* endVertex: the raw count for indexed draws, the count pruned to whole
\* primitives otherwise.
EndVertexOf(isIndexed, topology, numVerts) ==
    IF isIndexed
    THEN numVerts
    ELSE GetNumVerts(topology, GetNumPrims(topology, numVerts))

\* fetchInfo.CutMask of the batch at cursor cur, as positions of the stream.
FetchCutMask(cutIdx, cur) ==
    {v \in cutIdx : cur <= v /\ v < cur + KNOB_SIMD_WIDTH}

\* The cut mask is never forwarded.
ForwardCutMask_Dropped(isIndexed, cutMask) == {}

\* "forward cut mask to the PA": only indexed draws write *pvCutIndices.
ForwardCutMask(isIndexed, cutMask) == IF isIndexed THEN cutMask ELSE {}

\* The fetch cursor advanced by the width of the 16-wide build.
AdvanceCursor_Simd16(cur) == cur + 2 * KNOB_SIMD_WIDTH

\* i += KNOB_SIMD_WIDTH
AdvanceCursor(cur) == cur + KNOB_SIMD_WIDTH

\* The dispatch with the clipper called ahead of stream-out.
DispatchEvents_ClipFirst(tmpl, inst, cur, batch, prims) ==
    IF tmpl.HasTessellation
    THEN <<Event("TessellationStages", inst, cur, batch, 0, prims, TRUE)>>
    ELSE IF tmpl.HasGeometryShader
    THEN <<Event("GeometryShaderStage", inst, cur, batch, 0, prims, TRUE)>>
    ELSE (IF tmpl.HasRast
          THEN <<Event("ProcessPrims", inst, cur, batch,
                       GenMask(Len(prims)), prims, TRUE)>>
          ELSE <<>>)
         \o
         (IF tmpl.HasStreamOut
          THEN <<Event("StreamOut", inst, cur, batch, 0, prims, TRUE)>>
          ELSE <<>>)

\* What a successful Assemble dispatches: tessellation, else the geometry
\* shader, else stream-out followed by the clipper (pfnProcessPrims).
DispatchEvents(tmpl, inst, cur, batch, prims) ==
    IF tmpl.HasTessellation
    THEN <<Event("TessellationStages", inst, cur, batch, 0, prims, TRUE)>>
    ELSE IF tmpl.HasGeometryShader
    THEN <<Event("GeometryShaderStage", inst, cur, batch, 0, prims, TRUE)>>
    ELSE (IF tmpl.HasStreamOut
          THEN <<Event("StreamOut", inst, cur, batch, 0, prims, TRUE)>>
          ELSE <<>>)
         \o
         (IF tmpl.HasRast
          THEN <<Event("ProcessPrims", inst, cur, batch,
                       GenMask(Len(prims)), prims, TRUE)>>
          ELSE <<>>)

NoWork == [numVerts |-> 0, numInstances |-> 0, cutIdx |-> {}]

NoState ==
    [IsIndexed |-> FALSE, IsCutIndexEnabled |-> FALSE,
     HasTessellation |-> FALSE, HasGeometryShader |-> FALSE,
     HasStreamOut |-> FALSE, HasRast |-> FALSE, topology |-> TOP_POINT_LIST]

NoAssemble == [ok |-> FALSE, prims |-> <<>>]

\* Positions of the index buffer that hold the cut index.
CutChoices(isIndexed, isCutIndexEnabled, numVerts) ==
    IF isIndexed /\ isCutIndexEnabled
    THEN {c \in SUBSET (0..(numVerts - 1)) : Cardinality(c) <= MaxCuts}
    ELSE {{}}

\* Entry of ProcessDraw up to the instance loop: endVertex and the PA.
PD_Begin ==
    /\ pc = "idle"
    /\ \E isIndexed \in BOOLEAN, isCutIndexEnabled \in BOOLEAN,
          hasTessellation \in BOOLEAN, hasGeometryShader \in BOOLEAN,
          hasStreamOut \in BOOLEAN, hasRast \in BOOLEAN,
          topology \in DrawTopologies,
          numVerts \in 0..MaxVerts, numInstances \in 1..MaxInstances :
        /\ isCutIndexEnabled => isIndexed
        /\ \E cutIdx \in CutChoices(isIndexed, isCutIndexEnabled, numVerts) :
              work' = [numVerts |-> numVerts, numInstances |-> numInstances,
                       cutIdx |-> cutIdx]
        /\ state' = [IsIndexed |-> isIndexed,
                     IsCutIndexEnabled |-> isCutIndexEnabled,
                     HasTessellation |-> hasTessellation,
                     HasGeometryShader |-> hasGeometryShader,
                     HasStreamOut |-> hasStreamOut, HasRast |-> hasRast,
                     topology |-> topology]
        /\ endVertex' = EndVertexOf(isIndexed, topology, numVerts)
        /\ pa' = PA_FACTORY(isIndexed, isCutIndexEnabled, topology, numVerts)
    /\ instanceNum' = 0
    /\ i' = 0
    /\ assembled' = NoAssemble
    /\ log' = <<>>
    /\ pc' = "instance"
    /\ UNCHANGED <<stageVars, call>>

\* The instance loop with the fetch cursor declared outside of it.
PD_Instance_CursorKept ==
    /\ pc = "instance"
    /\ instanceNum < work.numInstances
    /\ pc' = "while"
    /\ UNCHANGED <<stageVars, call, work, state, endVertex, instanceNum, i, pa, assembled, log>>

\* Head of the instance loop: the next instance starts at cursor 0.
PD_Instance ==
    /\ pc = "instance"
    /\ instanceNum < work.numInstances
    /\ i' = 0
    /\ pc' = "while"
    /\ UNCHANGED <<stageVars, call, work, state, endVertex, instanceNum, pa, assembled, log>>

\* The instance loop has run out: ProcessDraw returns.
PD_Finish ==
    /\ pc = "instance"
    /\ instanceNum >= work.numInstances
    /\ pc' = "done"
    /\ UNCHANGED <<stageVars, call, work, state, endVertex, instanceNum, i, pa, assembled, log>>

\* while (pa.HasWork()): take the next vertex batch of the PA, and fetch and
\* shade it when the cursor is below endVertex.
PD_FetchShade ==
    /\ pc = "while"
    /\ PA_HasWork(pa)
    /\ LET batch == pa.batches + 1
           fetched == i < endVertex
           cutBits == IF fetched
                      THEN ForwardCutMask(state.IsIndexed,
                                          FetchCutMask(work.cutIdx, i))
                      ELSE {}
       IN  /\ pa' = PA_GetNextVsOutput(pa, cutBits)
           /\ log' = log
                \o <<Event("GetNextVsOutput", instanceNum, i, batch, 0, <<>>, fetched)>>
                \o (IF fetched
                    THEN <<Event("Fetch", instanceNum, i, batch, 0, <<>>, TRUE),
                           Event("VertexShader", instanceNum, i, batch,
                                 GenerateMask(endVertex - i), <<>>, TRUE)>>
                    ELSE <<>>)
    /\ pc' = "assemble"
    /\ UNCHANGED <<stageVars, call, work, state, endVertex, instanceNum, i, assembled>>

\* The PA has no more work: pa.Reset() and the next instance.
PD_EndInstance ==
    /\ pc = "while"
    /\ ~PA_HasWork(pa)
    /\ pa' = PA_Reset(pa)
    /\ log' = log \o <<Event("Reset", instanceNum, i, pa.batches, 0, <<>>, TRUE)>>
    /\ instanceNum' = instanceNum + 1
    /\ pc' = "instance"
    /\ UNCHANGED <<stageVars, call, work, state, endVertex, i, assembled>>

\* Body of the do-while: pa.Assemble and, when it succeeds, the dispatch.
PD_Assemble ==
    /\ pc = "assemble"
    /\ LET r == PA_Assemble(pa)
       IN  /\ assembled' = r
           /\ log' = log
                \o <<Event("Assemble", instanceNum, i, pa.batches, 0, r.prims, r.ok)>>
                \o (IF r.ok
                    THEN DispatchEvents(state, instanceNum, i, pa.batches, r.prims)
                    ELSE <<>>)
    /\ pc' = "nextprim"
    /\ UNCHANGED <<stageVars, call, work, state, endVertex, instanceNum, i, pa>>

\* while (pa.NextPrim()): back to the body, or past the loop where the fetch
\* cursor advances by one batch.
PD_NextPrim ==
    /\ pc = "nextprim"
    /\ LET q == PA_NextPrim(pa)
           more == PA_MorePrims(q)
       IN  /\ pa' = q
           /\ log' = log \o <<Event("NextPrim", instanceNum, i, pa.batches, 0,
                                    <<>>, more)>>
           /\ IF more
              THEN pc' = "assemble" /\ i' = i
              ELSE pc' = "while" /\ i' = AdvanceCursor(i)
    /\ UNCHANGED <<stageVars, call, work, state, endVertex, instanceNum, assembled>>

\* The worker takes its next work item.
PD_Return ==
    /\ pc = "done"
    /\ pc' = "idle"
    /\ work' = NoWork
    /\ state' = NoState
    /\ endVertex' = 0
    /\ instanceNum' = 0
    /\ i' = 0
    /\ pa' = NoPA
    /\ assembled' = NoAssemble
    /\ log' = <<>>
    /\ UNCHANGED <<stageVars, call>>

(***************************************************************************)
(* ProcessDraw of the 16-wide build (USE_SIMD16_FRONTEND): the fetch of    *)
(* the two halves of a batch and the cut masks handed to the assembler.    *)
(* The draw variables are those of ProcessDraw; pa is here the assembler   *)
(* of 16-wide batches together with the fetch state of the loop:           *)
(*   fetchInfo_lo, fetchInfo_hi  the CutMask of the two fetch contexts, as *)
(*                               lanes 0..7                                *)
(*   fetched_hi     the last pass ran pfnFetchFunc(fetchInfo_hi)           *)
(*   cutIndices_lo, cutIndices_hi  what was last stored through            *)
(*                  pvCutIndices_lo and pvCutIndices_hi                    *)
(*   forwarded      the last pass stored the two halves                    *)
(***************************************************************************)
KNOB_SIMD16_WIDTH == 16

\* pfnFetchFunc(fetchInfo, vin): the CutMask of the 8 indices at base, as
\* lanes of the batch.
Fetch16CutMask(cutIdx, base) == {v - base : v \in FetchCutMask(cutIdx, base)}

\* SWR_FETCH_CONTEXT fetchInfo_lo = { 0 }; fetchInfo_hi = fetchInfo_lo;
NoPA16 ==
    [fetchInfo_lo |-> [CutMask |-> {}], fetchInfo_hi |-> [CutMask |-> {}],
     fetched_hi |-> FALSE, cutIndices_lo |-> {}, cutIndices_hi |-> {},
     forwarded |-> FALSE]

\* The assembler of the 16-wide build (Assemble_simd16 hands out up to 16
\* primitives, a vertex batch is a simd16vertex) next to the fetch state.
PA16_FACTORY(isIndexed, isCutIndexEnabled, topology, numVerts) ==
    PA_Reset([PA_FACTORY(isIndexed, isCutIndexEnabled, topology, numVerts)
                EXCEPT !.simdWidth = KNOB_SIMD16_WIDTH])
    @@ NoPA16

\* do { pa.Assemble_simd16(...); ... } while (pa.NextPrim()): the assembler
\* after the loop.
RECURSIVE PA16_Drain(_)
PA16_Drain(p) ==
    LET q == PA_NextPrim(p)
    IN  IF PA_MorePrims(q) THEN PA16_Drain(q) ELSE q

\* Entry of ProcessDraw up to the instance loop.
PD16_Begin ==
    /\ pc = "idle"
    /\ \E isIndexed \in BOOLEAN, isCutIndexEnabled \in BOOLEAN,
          topology \in DrawTopologies,
          numVerts \in 0..MaxVerts16, numInstances \in 1..MaxInstances :
        /\ isCutIndexEnabled => isIndexed
        /\ \E cutIdx \in CutChoices(isIndexed, isCutIndexEnabled, numVerts) :
              work' = [numVerts |-> numVerts, numInstances |-> numInstances,
                       cutIdx |-> cutIdx]
        /\ state' = [NoState EXCEPT !.IsIndexed = isIndexed,
                                    !.IsCutIndexEnabled = isCutIndexEnabled,
                                    !.topology = topology]
        /\ endVertex' = EndVertexOf(isIndexed, topology, numVerts)
        /\ pa' = PA16_FACTORY(isIndexed, isCutIndexEnabled, topology, numVerts)
    /\ instanceNum' = 0
    /\ i' = 0
    /\ pc' = "simd16-instance"
    /\ UNCHANGED <<stageVars, call, assembled, log>>

\* Head of the instance loop: the next instance starts at cursor 0.
PD16_Instance ==
    /\ pc = "simd16-instance"
    /\ instanceNum < work.numInstances
    /\ i' = 0
    /\ pa' = [pa EXCEPT !.forwarded = FALSE, !.fetched_hi = FALSE]
    /\ pc' = "simd16-while"
    /\ UNCHANGED <<stageVars, call, work, state, endVertex, instanceNum, assembled, log>>

\* One pass of while (pa.HasWork()): the assembler hands out its next batch;
\* when i < endVertex the lower half is fetched, the upper half only when
\* (i + KNOB_SIMD_WIDTH) < endVertex, and for an indexed draw the CutMask of
\* both fetch contexts is stored in the cut indices of the batch; the
\* assembler is drained; then i += KNOB_SIMD16_WIDTH.
PD16_FetchShade ==
    /\ pc = "simd16-while"
    /\ PA_HasWork(pa)
    /\ LET fetched == i < endVertex
           fetchHi == fetched /\ (i + KNOB_SIMD_WIDTH) < endVertex
           lo == IF fetched
                 THEN [CutMask |-> Fetch16CutMask(work.cutIdx, i)]
                 ELSE pa.fetchInfo_lo
           hi == IF fetchHi
                 THEN [CutMask |->
                         Fetch16CutMask(work.cutIdx, i + KNOB_SIMD_WIDTH)]
                 ELSE pa.fetchInfo_hi
           forwarded == fetched /\ state.IsIndexed
           cutBits == IF forwarded
                      THEN {i + l : l \in lo.CutMask}
                           \cup {i + KNOB_SIMD_WIDTH + l : l \in hi.CutMask}
                      ELSE {}
           q == [pa EXCEPT !.fetchInfo_lo = lo, !.fetchInfo_hi = hi,
                           !.fetched_hi = fetchHi,
                           !.cutIndices_lo = IF forwarded THEN lo.CutMask ELSE @,
                           !.cutIndices_hi = IF forwarded THEN hi.CutMask ELSE @,
                           !.forwarded = forwarded]
       IN pa' = PA16_Drain(PA_GetNextVsOutput(q, cutBits))
    /\ i' = i + KNOB_SIMD16_WIDTH
    /\ UNCHANGED <<stageVars, call, pc, work, state, endVertex, instanceNum, assembled, log>>

\* The assembler has no more work: pa.Reset() and the next instance.
PD16_EndInstance ==
    /\ pc = "simd16-while"
    /\ ~PA_HasWork(pa)
    /\ pa' = PA_Reset(pa)
    /\ instanceNum' = instanceNum + 1
    /\ pc' = "simd16-instance"
    /\ UNCHANGED <<stageVars, call, work, state, endVertex, i, assembled, log>>

\* The instance loop has run out: ProcessDraw returns.
PD16_Finish ==
    /\ pc = "simd16-instance"
    /\ instanceNum >= work.numInstances
    /\ pc' = "done"
    /\ pa' = NoPA
    /\ UNCHANGED <<stageVars, call, work, state, endVertex, instanceNum, i, assembled, log>>

(***************************************************************************)
(* Geometry-shader output buffers.                                         *)
(***************************************************************************)
MAX_SO_STREAMS == 4

\* sizeof(simdvertex): SWR_VTX_NUM_SLOTS (32) attributes of 4 components of
\* KNOB_SIMD_WIDTH floats.
SIZEOF_SIMDVERTEX == 4096

\* AlignUp(value, alignment): value rounded up to a multiple of alignment.
AlignUp(value, alignment) ==
    ((value + (alignment - 1)) \div alignment) * alignment

\* pInstanceBase = pGsOut + inputPrim * vertexPrimitiveStride and
\* pBase = pInstanceBase + instance * vertexInstanceStride: the byte offset
\* in the GS output buffer of what one instance emitted for one primitive.
GsVertexBase(bufferInfo, inputPrim, instance) ==
    inputPrim * bufferInfo.vertexPrimitiveStride
    + instance * bufferInfo.vertexInstanceStride

\* The vertex stride of a primitive is the share of its vertices in a SIMD
\* vertex, not rounded up to whole batches.
GsBufferInfo_VertexShare(maxNumVerts, isSingleStream) ==
    LET vertexPrimitiveStride == (SIZEOF_SIMDVERTEX * maxNumVerts) \div KNOB_SIMD_WIDTH
        cutPrimitiveStride == (maxNumVerts + 7) \div 8
    IN  [vertexPrimitiveStride    |-> vertexPrimitiveStride,
         vertexInstanceStride     |-> vertexPrimitiveStride * KNOB_SIMD_WIDTH,
         cutPrimitiveStride       |-> cutPrimitiveStride,
         cutInstanceStride        |-> cutPrimitiveStride * KNOB_SIMD_WIDTH,
         streamCutPrimitiveStride |-> cutPrimitiveStride,
         streamCutInstanceStride  |-> cutPrimitiveStride * KNOB_SIMD_WIDTH]

\* GsBufferInfo<simdvertex, KNOB_SIMD_WIDTH>: the constructor, field by field.
GsBufferInfo(maxNumVerts, isSingleStream) ==
    LET vertexCount == maxNumVerts
        vertexStride == SIZEOF_SIMDVERTEX
        numSimdBatches == (vertexCount + KNOB_SIMD_WIDTH - 1) \div KNOB_SIMD_WIDTH
        vertexPrimitiveStride == vertexStride * numSimdBatches
        cutPrimitiveStride ==
            IF isSingleStream
            THEN (vertexCount + 7) \div 8
            ELSE AlignUp((vertexCount * 2) \div 8, 4)
        streamCutPrimitiveStride ==
            IF isSingleStream THEN 0 ELSE (vertexCount + 7) \div 8
    IN  [vertexPrimitiveStride    |-> vertexPrimitiveStride,
         vertexInstanceStride     |-> vertexPrimitiveStride * KNOB_SIMD_WIDTH,
         cutPrimitiveStride       |-> cutPrimitiveStride,
         cutInstanceStride        |-> cutPrimitiveStride * KNOB_SIMD_WIDTH,
         streamCutPrimitiveStride |-> streamCutPrimitiveStride,
         streamCutInstanceStride  |-> streamCutPrimitiveStride * KNOB_SIMD_WIDTH]

\* AllocateGsBuffers: the sizes asked of the arena (0 for the null pointer
\* of the per-stream cut buffer in single-stream mode).
AllocateGsBuffers(maxNumVerts, isSingleStream, instanceCount) ==
    LET bufferInfo == GsBufferInfo(maxNumVerts, isSingleStream)
    IN  [vertexBufferSize    |-> instanceCount * bufferInfo.vertexInstanceStride,
         cutBufferSize       |-> instanceCount * bufferInfo.cutInstanceStride,
         streamCutBufferSize |->
             IF isSingleStream
             THEN 0
             ELSE instanceCount * bufferInfo.streamCutInstanceStride]

\* (byte >> 2k) & 0x3
StreamIdAt(byte, k) == (byte \div 4^k) % 4

\* The stream-id buffer the geometry shader leaves for the emitted vertices:
\* 2 bits per vertex, 4 vertices per byte, low bits first; numBytes long,
\* zero past the last vertex.
PackStreamIds(ids, numBytes) ==
    LET idAt(v) == IF v + 1 <= Len(ids) THEN ids[v + 1] ELSE 0
    IN  [b \in 1..numBytes |->
            idAt(4 * (b - 1)) + 4 * idAt(4 * (b - 1) + 1)
            + 16 * idAt(4 * (b - 1) + 2) + 64 * idAt(4 * (b - 1) + 3)]

\* One output byte of ProcessStreamIdBuffer from its two input bytes.
CutByte(stream, loByte, hiByte) ==
    LET lo(k) == IF StreamIdAt(loByte, k) # stream THEN 2^k ELSE 0
        hi(k) == IF StreamIdAt(hiByte, k) # stream THEN 2^(k + 4) ELSE 0
    IN  lo(0) + lo(1) + lo(2) + lo(3) + hi(0) + hi(1) + hi(2) + hi(3)

\* Bytes ProcessStreamIdBuffer writes: std::max(numInputBytes / 2, 1U).
NumOutputBytes(numEmittedVerts) ==
    LET numInputBytes == (numEmittedVerts * 2 + 7) \div 8
    IN  IF numInputBytes \div 2 >= 1 THEN numInputBytes \div 2 ELSE 1

\* NumOutputBytes with the input byte count rounded up to a whole output byte.
ProcessStreamIdBuffer_RoundedUp(stream, pStreamIdBase, numEmittedVerts, pCutBuffer) ==
    [b \in 1..Len(pCutBuffer) |->
        IF b <= (numEmittedVerts + 7) \div 8
        THEN CutByte(stream, pStreamIdBase[2 * b - 1], pStreamIdBase[2 * b])
        ELSE pCutBuffer[b]]

\* ProcessStreamIdBuffer: the cut buffer afterwards.  pStreamIdBase and
\* pCutBuffer are the byte contents before the call (index 1 is byte 0).
ProcessStreamIdBuffer(stream, pStreamIdBase, numEmittedVerts, pCutBuffer) ==
    [b \in 1..Len(pCutBuffer) |->
        IF b <= NumOutputBytes(numEmittedVerts)
        THEN CutByte(stream, pStreamIdBase[2 * b - 1], pStreamIdBase[2 * b])
        ELSE pCutBuffer[b]]

\* Bytes of the cut buffers of the model.
CutBufferBytes == (MaxStreamVerts + 7) \div 8 + 1

\* Stream ids of n vertices: those in inStream carry stream, the rest other.
StreamIdsOf(n, inStream, stream, other) ==
    [v \in 1..n |-> IF (v - 1) \in inStream THEN stream ELSE other]

(***************************************************************************)
(* Batch and GS-buffer helpers called on their own: one call per step.     *)
(***************************************************************************)
NoFn == [fn |-> "none"]

\* GetNumInvocations(curIndex, maxIndex)
Fn_GetNumInvocations ==
    /\ fn.fn = "none"
    /\ \E curIndex \in 0..MaxIndex, maxIndex \in 0..MaxIndex :
          fn' = [fn |-> "GetNumInvocations", curIndex |-> curIndex,
                 maxIndex |-> maxIndex,
                 ret |-> GetNumInvocations(curIndex, maxIndex)]
    /\ UNCHANGED <<call, drawVars, so, gs, workerVars>>

\* GenerateMask(numItemsRemaining)
Fn_GenerateMask ==
    /\ fn.fn = "none"
    /\ \E numItemsRemaining \in 0..MaxIndex :
          fn' = [fn |-> "GenerateMask", numItemsRemaining |-> numItemsRemaining,
                 ret |-> GenerateMask(numItemsRemaining)]
    /\ UNCHANGED <<call, drawVars, so, gs, workerVars>>

\* GsBufferInfo(gsState) and the sizes AllocateGsBuffers derives from it.
Fn_GsBufferInfo ==
    /\ fn.fn = "none"
    /\ \E maxNumVerts \in 1..MaxGsVerts, isSingleStream \in BOOLEAN,
          instanceCount \in 1..MaxInstances :
          fn' = [fn |-> "GsBufferInfo", maxNumVerts |-> maxNumVerts,
                 isSingleStream |-> isSingleStream,
                 instanceCount |-> instanceCount,
                 ret |-> GsBufferInfo(maxNumVerts, isSingleStream),
                 sizes |-> AllocateGsBuffers(maxNumVerts, isSingleStream,
                                             instanceCount)]
    /\ UNCHANGED <<call, drawVars, so, gs, workerVars>>

\* ProcessStreamIdBuffer(stream, pStreamIdBase, numEmittedVerts, pCutBuffer).
\* The per-stream cut buffer is reused from call to call: what it holds
\* before the call is either all zeroes or all ones here.
Fn_ProcessStreamIdBuffer ==
    /\ fn.fn = "none"
    /\ \E stream \in 0..(MAX_SO_STREAMS - 1),
          other \in 0..(MAX_SO_STREAMS - 1),
          numEmittedVerts \in 1..MaxStreamVerts,
          stale \in {0, 255} :
          /\ other # stream
          /\ \E inStream \in SUBSET (0..(numEmittedVerts - 1)) :
                LET ids == StreamIdsOf(numEmittedVerts, inStream, stream, other)
                    before == [b \in 1..CutBufferBytes |-> stale]
                IN  fn' = [fn |-> "ProcessStreamIdBuffer", stream |-> stream,
                           ids |-> ids,
                           numEmittedVerts |-> numEmittedVerts,
                           before |-> before,
                           out |-> ProcessStreamIdBuffer(
                                       stream,
                                       PackStreamIds(ids, 2 * CutBufferBytes),
                                       numEmittedVerts, before)]
    /\ UNCHANGED <<call, drawVars, so, gs, workerVars>>

\* SWR_VTX_NUM_SLOTS: attribute slots of a vertex.
SWR_VTX_NUM_SLOTS == 32

\* pSoPrimData = pDC->pArena->AllocAligned(4096, 16): bytes of the
\* primitive-data buffer.
SO_PRIM_DATA_BYTES == 4096

\* _BitScanForward(&slot, soMask): the lowest set bit.  A mask is kept as
\* the set of its set bits.
BitScanForward(soMask) == CHOOSE b \in soMask : \A c \in soMask : b <= c

\* "Write all entries into primitive data buffer for SOS": the loop
\* while (_BitScanForward(&slot, soMask)) { ...; soMask &= ~(1 << slot); }
\* for one primitive.  For each slot found, the dword offsets in pPrimData
\* of the 4-dword stores _mm_store_ps makes, one per vertex.
RECURSIVE SoGatherLoop(_, _)
SoGatherLoop(soMask, soVertsPerPrim) ==
    IF soMask = {}
    THEN <<>>
    ELSE LET slot == BitScanForward(soMask)
             primDataDwordVertexStride == (SWR_VTX_NUM_SLOTS * 4 * 4) \div 4
             primDataAttribOffset == (slot * 4 * 4) \div 4
         IN  <<[slot |-> slot,
                stores |-> [k \in 1..soVertsPerPrim |->
                               [v |-> k - 1,
                                offset |-> primDataAttribOffset
                                           + (k - 1) * primDataDwordVertexStride]]]>>
             \o SoGatherLoop(soMask \ {slot}, soVertsPerPrim)

\* The vertices of the primitive are counted with the adjacent ones.
StreamOutGather_WithAdjacency(binTopology, soMask) ==
    SoGatherLoop(soMask, NumVertsPerPrim(binTopology, TRUE))

\* StreamOut's gather for one primitive of an assembler with this bin
\* topology: soVertsPerPrim = NumVertsPerPrim(pa.binTopology, false).
StreamOutGather(binTopology, soMask) ==
    SoGatherLoop(soMask, NumVertsPerPrim(binTopology, FALSE))

\* The gather of StreamOut for one primitive, for a bin topology and the
\* stream mask streamMasks[streamIndex].
Fn_StreamOutGather ==
    /\ fn.fn = "none"
    /\ \E binTopology \in {TOP_POINT_LIST, TOP_LINE_LIST, TOP_TRIANGLE_LIST,
                           TOP_TRI_LIST_ADJ, TOP_QUAD_LIST,
                           TOP_PATCHLIST_BASE + 8, TOP_PATCHLIST_BASE + 9,
                           TOP_PATCHLIST_BASE + 32},
          soMask \in {{}, {0}, {0, 2}, {31}, {5, 30, 31},
                      0..(SWR_VTX_NUM_SLOTS - 1)} :
          fn' = [fn |-> "StreamOutGather", binTopology |-> binTopology,
                 soMask |-> soMask,
                 ret |-> StreamOutGather(binTopology, soMask)]
    /\ UNCHANGED <<call, drawVars, so, gs, workerVars>>

\* The call has returned; the next one can be made.
Fn_Return ==
    /\ fn.fn # "none"
    /\ fn' = NoFn
    /\ UNCHANGED <<call, drawVars, so, gs, workerVars>>

NoSo == [pc |-> "idle"]

(***************************************************************************)
(* StreamOut.  so is a record                                              *)
(*   pc        "idle" (no draw), "ready" (in a draw, between StreamOut     *)
(*             calls) or "prims" (in the primitive loop of a call)         *)
(*   soBuffer  state.soBuffer[0..3]: pWriteOffset (the driver gave a       *)
(*             write-offset slot), soWriteEnable, streamOffset (dwords)    *)
(*   slot      the memory behind state.soBuffer[i].pWriteOffset            *)
(*   SoWriteOffset, SoWriteOffsetDirty   pDC->dynState                     *)
(*   soMask    soState.streamMasks[streamIndex]                            *)
(*   soFunc    the stream-out function of the draw: dwords of its record   *)
(*             and the buffers it writes                                   *)
(*   numPrims, primIndex   locals of the call                              *)
(*   before    buffers, slots and dynamic state when the call began        *)
(*   calls     calls made by the current StreamOut call, in order          *)
(*   published the offsets published by each finished call of the draw     *)
(* A 32-bit byte offset is kept as its two 16-bit halves [hi, lo].         *)
(***************************************************************************)
SoBuffers == 0..3

\* streamOffset * sizeof(uint32_t), stored to a uint32_t: the low 32 bits
\* of the product, as halves.
SoByteOffset(streamOffset) ==
    [hi |-> (streamOffset \div 2^14) % 2^16, lo |-> (streamOffset % 2^14) * 4]

\* a <= b for 32-bit values kept as halves
U32Leq(a, b) == a.hi < b.hi \/ (a.hi = b.hi /\ a.lo <= b.lo)

\* The set bits of the stream mask, lowest first (_BitScanForward).
RECURSIVE MaskSlots(_, _)
MaskSlots(soMask, slot) ==
    IF soMask = 0
    THEN <<>>
    ELSE (IF soMask % 2 = 1 THEN <<slot>> ELSE <<>>)
         \o MaskSlots(soMask \div 2, slot + 1)

\* The stream-out function: appends one record of soFunc.dwords dwords to
\* each buffer it writes, advancing that buffer's streamOffset.
SoFuncCall(soBuffer, soFunc) ==
    [b \in SoBuffers |->
        IF b \in soFunc.writes
        THEN [soBuffer[b] EXCEPT !.streamOffset = @ + soFunc.dwords]
        ELSE soBuffer[b]]

\* The primitive loop runs one time too many.
StreamOutLoopDone_OneMore(primIndex, numPrims) == ~(primIndex <= numPrims)

\* for (primIndex = 0; primIndex < numPrims; ++primIndex): the loop is over.
StreamOutLoopDone(primIndex, numPrims) == ~(primIndex < numPrims)

\* The dynamic state is written for buffers with a write-offset slot
\* instead of those with soWriteEnable.
PublishWriteOffsets_SlotDecides(q) ==
    [q EXCEPT
        !.slot = [b \in SoBuffers |->
                     IF q.soBuffer[b].pWriteOffset
                     THEN SoByteOffset(q.soBuffer[b].streamOffset)
                     ELSE q.slot[b]],
        !.SoWriteOffset = [b \in SoBuffers |->
                     IF q.soBuffer[b].pWriteOffset
                     THEN SoByteOffset(q.soBuffer[b].streamOffset)
                     ELSE q.SoWriteOffset[b]],
        !.SoWriteOffsetDirty = [b \in SoBuffers |->
                     q.soBuffer[b].pWriteOffset \/ q.SoWriteOffsetDirty[b]]]

\* "Update SO write offset": the loop over the 4 buffers after the
\* primitive loop.
PublishWriteOffsets(q) ==
    [q EXCEPT
        !.slot = [b \in SoBuffers |->
                     IF q.soBuffer[b].pWriteOffset
                     THEN SoByteOffset(q.soBuffer[b].streamOffset)
                     ELSE q.slot[b]],
        !.SoWriteOffset = [b \in SoBuffers |->
                     IF q.soBuffer[b].soWriteEnable
                     THEN SoByteOffset(q.soBuffer[b].streamOffset)
                     ELSE q.SoWriteOffset[b]],
        !.SoWriteOffsetDirty = [b \in SoBuffers |->
                     q.soBuffer[b].soWriteEnable \/ q.SoWriteOffsetDirty[b]]]

\* Buffer sets the draws of the model are set up with.
SoBufferSets == {{}, {0}, {1, 3}, SoBuffers}

\* Stream offsets (dwords) the buffers of a draw start at.
SoStartOffsets == {0, 2^30 - 2}

\* Stream masks of the model: no attribute, attributes 0 and 2.
SoStreamMasks == {0, 5}

\* What the write-offset slots and the dynamic state hold before the first
\* StreamOut of a draw.
SoUnwritten == [hi |-> 65535, lo |-> 65535]

\* A draw with stream-out begins: the API state of the draw.
SO_DrawBegin ==
    /\ so.pc = "idle"
    /\ \E slots \in SoBufferSets, enabled \in SoBufferSets,
          writes \in SoBufferSets, dwords \in 1..MaxSoRecord,
          start \in SoStartOffsets, soMask \in SoStreamMasks :
          so' = [pc |-> "ready",
                 soBuffer |-> [b \in SoBuffers |->
                                 [pWriteOffset |-> b \in slots,
                                  soWriteEnable |-> b \in enabled,
                                  streamOffset |-> start]],
                 slot |-> [b \in SoBuffers |-> SoUnwritten],
                 SoWriteOffset |-> [b \in SoBuffers |-> SoUnwritten],
                 SoWriteOffsetDirty |-> [b \in SoBuffers |-> FALSE],
                 soMask |-> soMask,
                 soFunc |-> [dwords |-> dwords, writes |-> writes],
                 numPrims |-> 0, primIndex |-> 0,
                 before |-> <<>>, calls |-> <<>>, published |-> <<>>]
    /\ UNCHANGED <<call, drawVars, fn, gs, workerVars>>

\* StreamOut is entered with an assembler holding numPrims primitives.
SO_Begin ==
    /\ so.pc = "ready"
    /\ Len(so.published) < MaxSoCalls
    /\ \E numPrims \in 0..MaxSoPrims :
          so' = [so EXCEPT !.pc = "prims",
                           !.numPrims = numPrims,
                           !.primIndex = 0,
                           !.calls = <<>>,
                           !.before = [soBuffer |-> so.soBuffer,
                                       slot |-> so.slot,
                                       SoWriteOffset |-> so.SoWriteOffset,
                                       SoWriteOffsetDirty |-> so.SoWriteOffsetDirty]]
    /\ UNCHANGED <<call, drawVars, fn, gs, workerVars>>

\* One iteration of the primitive loop: the attributes of the stream mask
\* are gathered with AssembleSingle, then the stream-out function is called.
SO_Prim ==
    /\ so.pc = "prims"
    /\ ~StreamOutLoopDone(so.primIndex, so.numPrims)
    /\ LET slots == MaskSlots(so.soMask, 0)
           gathers == [k \in 1..Len(slots) |->
                          [ev |-> "AssembleSingle", slot |-> slots[k],
                           primIndex |-> so.primIndex]]
       IN  so' = [so EXCEPT
                     !.calls = @ \o gathers
                               \o <<[ev |-> "SoFunc", slot |-> 0,
                                     primIndex |-> so.primIndex]>>,
                     !.soBuffer = SoFuncCall(@, so.soFunc),
                     !.primIndex = @ + 1]
    /\ UNCHANGED <<call, drawVars, fn, gs, workerVars>>

\* After the primitive loop the write offsets are published and StreamOut
\* returns.
SO_Publish ==
    /\ so.pc = "prims"
    /\ StreamOutLoopDone(so.primIndex, so.numPrims)
    /\ LET q == PublishWriteOffsets(so)
       IN  so' = [q EXCEPT
                     !.pc = "ready",
                     !.published = Append(@, [slot |-> q.slot,
                                              SoWriteOffset |-> q.SoWriteOffset])]
    /\ UNCHANGED <<call, drawVars, fn, gs, workerVars>>

\* The draw ends.
SO_DrawEnd ==
    /\ so.pc = "ready"
    /\ so' = NoSo
    /\ UNCHANGED <<call, drawVars, fn, gs, workerVars>>

NoGs == [pc |-> "idle"]

(***************************************************************************)
(* GeometryShaderStage (8-wide build).  gs is a record                     *)
(*   pc        "idle", "invoke" (the loop that runs the shader), "prims"   *)
(*             (the loop over the input primitives), "done", "aborted"     *)
(*             (SWR_INVALID stopped an asserting build) or "fault" (a call *)
(*             through a null pointer)                                     *)
(*   HasStreamOut, HasRast     template arguments                          *)
(*   instanceCount, isSingleStream, singleStreamID, outputTopology,        *)
(*   emitsViewportArrayIndex   state.gsState                               *)
(*   streamEnable, streamToRasterizer   state.soState                      *)
(*   numInputPrims             pa.NumPrims()                               *)
(*   emitted   stream id of each vertex the shader emits for one input     *)
(*             primitive (the same for every primitive and instance)       *)
(*   streamPrims  what the nested assembler makes of emitted, per stream   *)
(*   pStreamCutBuffer  the bytes of the per-stream cut buffer as the arena *)
(*             or an earlier call left them: every call of the stage       *)
(*             rewrites the same leading bytes and no other                *)
(*   viewport  the viewport array index the shader writes (signed 32 bit)  *)
(*   instance, inputPrim       loop counters                               *)
(*   pfnClipFunc, invalid      the clip function chosen; SWR_INVALID hit   *)
(*   GsInvocations             the pipeline statistic                      *)
(*   calls     calls made by the stage, in order                           *)
(***************************************************************************)
KNOB_NUM_VIEWPORTS_SCISSORS == 16

\* Output topologies the geometry shaders of the model declare.
GsOutputTopologies ==
    {TOP_POINT_LIST, TOP_LINE_STRIP, TOP_TRIANGLE_STRIP, TOP_TRIANGLE_LIST}

\* Streams the geometry shaders of the model emit to.
GsStreamIds == {0, 1}

\* Viewport array indices the geometry shaders of the model write.
GsViewportValues == {-1, 1, KNOB_NUM_VIEWPORTS_SCISSORS}

\* switch (pState->outputTopology): the clip function, or SWR_INVALID with
\* the pointer left null.
GsClipFunc(outputTopology) ==
    CASE outputTopology = TOP_TRIANGLE_STRIP ->
            [fn |-> "ClipTriangles", invalid |-> FALSE]
      [] outputTopology = TOP_LINE_STRIP ->
            [fn |-> "ClipLines", invalid |-> FALSE]
      [] outputTopology = TOP_POINT_LIST ->
            [fn |-> "ClipPoints", invalid |-> FALSE]
      [] OTHER -> [fn |-> "nullptr", invalid |-> TRUE]

\* TessellationStages, switch (tsState.postDSTopology).
TsClipFunc(postDSTopology) ==
    CASE postDSTopology = TOP_TRIANGLE_LIST ->
            [fn |-> "ClipTriangles", invalid |-> FALSE]
      [] postDSTopology = TOP_LINE_LIST ->
            [fn |-> "ClipLines", invalid |-> FALSE]
      [] postDSTopology = TOP_POINT_LIST ->
            [fn |-> "ClipPoints", invalid |-> FALSE]
      [] OTHER -> [fn |-> "nullptr", invalid |-> TRUE]

\* The viewport index is taken as the shader wrote it.
GsViewportIndex_Unclamped(emitsViewportArrayIndex, value) ==
    IF emitsViewportArrayIndex THEN value ELSE 0

\* The viewport index handed to the clipper: the lane is kept where
\* _simd_cmplt_epi32(value, KNOB_NUM_VIEWPORTS_SCISSORS), a signed compare,
\* is true and zeroed elsewhere; 0 when the shader does not emit one.
GsViewportIndex(emitsViewportArrayIndex, value) ==
    IF emitsViewportArrayIndex
    THEN (IF value < KNOB_NUM_VIEWPORTS_SCISSORS THEN value ELSE 0)
    ELSE 0

\* The instance loop runs one time too many.
GsInstanceLoopDone_OneMore(instance, instanceCount) == ~(instance <= instanceCount)

\* for (instance = 0; instance < pState->instanceCount; ++instance): over.
GsInstanceLoopDone(instance, instanceCount) == ~(instance < instanceCount)

\* The stream loop skips a stream (continue): in single-stream mode every
\* stream but singleStreamID; in multi-stream mode, with stream-out, every
\* stream that is not enabled for stream-out.
GsStreamSkipped(g, stream) ==
    IF g.isSingleStream
    THEN g.singleStreamID # stream
    ELSE g.HasStreamOut /\ ~g.streamEnable[stream]

\* Vertex positions whose bit is set in a cut buffer.
CutPositions(buffer, numVerts) ==
    {v \in 0..(numVerts - 1) : (buffer[(v \div 8) + 1] \div 2^(v % 8)) % 2 = 1}

\* The primitives of the nested PA_STATE_CUT, in SIMD batches.
RECURSIVE GsPaBatches(_)
GsPaBatches(prims) ==
    IF Len(prims) = 0
    THEN <<>>
    ELSE IF Len(prims) <= KNOB_SIMD_WIDTH
    THEN <<prims>>
    ELSE <<SubSeq(prims, 1, KNOB_SIMD_WIDTH)>>
         \o GsPaBatches(SubSeq(prims, KNOB_SIMD_WIDTH + 1, Len(prims)))

GsEvent(name, inputPrim, instance, stream, mask, func, vp, prims, flag) ==
    [ev |-> name, inputPrim |-> inputPrim, instance |-> instance,
     stream |-> stream, mask |-> mask, fn |-> func, vp |-> vp,
     prims |-> prims, flag |-> flag]

\* What is done with one assembled batch of the nested PA: StreamOut, then
\* the clip function for the stream routed to the rasterizer.
GsBatchEvents(g, inputPrim, instance, stream, prims) ==
    (IF g.HasStreamOut
     THEN <<GsEvent("StreamOut", inputPrim, instance, stream, 0, "", 0, prims, FALSE)>>
     ELSE <<>>)
    \o (IF g.HasRast /\ g.streamToRasterizer = stream
        THEN <<GsEvent("Clip", inputPrim, instance, stream,
                       GenMask(Len(prims)), g.pfnClipFunc,
                       GsViewportIndex(g.emitsViewportArrayIndex, g.viewport),
                       prims, FALSE)>>
        ELSE <<>>)

RECURSIVE GsDrainEvents(_, _, _, _, _)
GsDrainEvents(g, inputPrim, instance, stream, batches) ==
    IF batches = <<>>
    THEN <<>>
    ELSE GsBatchEvents(g, inputPrim, instance, stream, Head(batches))
         \o GsDrainEvents(g, inputPrim, instance, stream, Tail(batches))

\* Numbers of vertices the geometry shaders of the model emit: up to MaxEmit
\* vertices of any streams, or one more than a byte of cut bits holds.
GsEmitCounts == {0, 1, MaxEmit, KNOB_SIMD_WIDTH + 1}

\* The primitives a PA_STATE_CUT built over the emitted vertices assembles
\* for one stream: in single-stream mode from the shader's cut buffer (no
\* cut here) with the cut vertices kept, in multi-stream mode from
\* pStreamCutBuffer after ProcessStreamIdBuffer has written the cut bytes of
\* the stream into it, the cut vertices dropped.  pStreamCutBuffer is the
\* content of that buffer before the call: it is allocated once per draw and
\* never cleared.
GsStreamPrims(isSingleStream, outputTopology, emitted, stream, pStreamCutBuffer) ==
    LET numEmittedVerts == Len(emitted)
        cutBuffer ==
            IF isSingleStream
            THEN [b \in 1..CutBufferBytes |-> 0]
            ELSE ProcessStreamIdBuffer(
                     stream, PackStreamIds(emitted, 2 * CutBufferBytes),
                     numEmittedVerts, pStreamCutBuffer)
    IN  CutWalk(outputTopology, 0, 0, numEmittedVerts,
                CutPositions(cutBuffer, numEmittedVerts), isSingleStream)

\* One iteration of the stream loop.
GsStreamEvents(g, inputPrim, instance, stream) ==
    IF GsStreamSkipped(g, stream)
    THEN <<>>
    ELSE (IF g.isSingleStream
          THEN <<>>
          ELSE <<GsEvent("ProcessStreamIdBuffer", inputPrim, instance,
                         stream, 0, "", 0, <<>>, FALSE)>>)
         \o <<GsEvent("PA_STATE_CUT", inputPrim, instance, stream, 0, "",
                      0, <<>>, g.isSingleStream)>>
         \o GsDrainEvents(g, inputPrim, instance, stream,
                          GsPaBatches(g.streamPrims[stream]))

RECURSIVE GsStreamLoop(_, _, _, _)
GsStreamLoop(g, inputPrim, instance, stream) ==
    IF stream >= MAX_SO_STREAMS
    THEN <<>>
    ELSE GsStreamEvents(g, inputPrim, instance, stream)
         \o GsStreamLoop(g, inputPrim, instance, stream + 1)

\* The instance loop inside the loop over the input primitives.
RECURSIVE GsEmitLoop(_, _, _)
GsEmitLoop(g, inputPrim, instance) ==
    IF GsInstanceLoopDone(instance, g.instanceCount)
    THEN <<>>
    ELSE (IF Len(g.emitted) = 0
          THEN <<>>
          ELSE GsStreamLoop(g, inputPrim, instance, 0))
         \o GsEmitLoop(g, inputPrim, instance + 1)

\* A call through a null clip function pointer.
IsNullCall(e) == e.ev = "Clip" /\ e.fn = "nullptr"

\* The events up to and including the first call through a null pointer.
RECURSIVE UpToNullCall(_)
UpToNullCall(events) ==
    IF events = <<>>
    THEN <<>>
    ELSE IF IsNullCall(Head(events))
    THEN <<Head(events)>>
    ELSE <<Head(events)>> \o UpToNullCall(Tail(events))

\* The stage is entered: the state of the draw and the shader's output.
GS_Begin ==
    /\ gs.pc = "idle"
    /\ \E HasStreamOut \in BOOLEAN, HasRast \in BOOLEAN,
          isSingleStream \in BOOLEAN,
          instanceCount \in {0, 1, MaxGsInstances},
          numInputPrims \in {1, MaxInputPrims},
          outputTopology \in GsOutputTopologies,
          singleStreamID \in GsStreamIds, streamToRasterizer \in GsStreamIds,
          enableRasterized \in BOOLEAN, enableOthers \in BOOLEAN,
          emitsViewportArrayIndex \in BOOLEAN,
          viewport \in GsViewportValues \cup {0},
          numEmittedVerts \in GsEmitCounts,
          stale \in {0, 255} :
          \* settings that play no part are given one value
          /\ ~HasStreamOut => enableRasterized /\ enableOthers
          /\ ~isSingleStream => singleStreamID = 0
          /\ ~HasRast => streamToRasterizer = 0 /\ ~emitsViewportArrayIndex
          /\ emitsViewportArrayIndex <=> viewport # 0
          /\ (isSingleStream \/ numEmittedVerts <= 8 * NumOutputBytes(numEmittedVerts))
                => stale = 0
          /\ \E emitted \in [1..numEmittedVerts -> GsStreamIds] :
                /\ isSingleStream =>
                      \A v \in 1..numEmittedVerts : emitted[v] = singleStreamID
                \* the longer outputs are of one stream
                /\ numEmittedVerts > MaxEmit =>
                      \A v \in 1..numEmittedVerts : emitted[v] = emitted[1]
                /\ gs' = [pc |-> "invoke",
                          HasStreamOut |-> HasStreamOut, HasRast |-> HasRast,
                          instanceCount |-> instanceCount,
                          isSingleStream |-> isSingleStream,
                          singleStreamID |-> singleStreamID,
                          outputTopology |-> outputTopology,
                          emitsViewportArrayIndex |-> emitsViewportArrayIndex,
                          streamEnable |->
                              [st \in 0..(MAX_SO_STREAMS - 1) |->
                                  IF st = streamToRasterizer
                                  THEN enableRasterized
                                  ELSE enableOthers],
                          streamToRasterizer |-> streamToRasterizer,
                          numInputPrims |-> numInputPrims,
                          emitted |-> emitted,
                          streamPrims |->
                              [st \in 0..(MAX_SO_STREAMS - 1) |->
                                  GsStreamPrims(isSingleStream, outputTopology,
                                                emitted, st,
                                                [b \in 1..CutBufferBytes |-> stale])],
                          pStreamCutBuffer |-> [b \in 1..CutBufferBytes |-> stale],
                          viewport |-> viewport,
                          instance |-> 0, inputPrim |-> 0,
                          pfnClipFunc |-> "nullptr", invalid |-> FALSE,
                          GsInvocations |-> 0,
                          calls |-> <<>>]
    /\ UNCHANGED <<call, drawVars, fn, so, workerVars>>

\* One iteration of the loop that executes the geometry shader.
GS_Invoke ==
    /\ gs.pc = "invoke"
    /\ ~GsInstanceLoopDone(gs.instance, gs.instanceCount)
    /\ gs' = [gs EXCEPT
                 !.calls = Append(@, GsEvent("GsFunc", 0, gs.instance, 0,
                                             GenerateMask(gs.numInputPrims),
                                             "", 0, <<>>, FALSE)),
                 !.instance = @ + 1]
    /\ UNCHANGED <<call, drawVars, fn, so, workerVars>>

\* After the shader loop the clip function is chosen.  SWR_INVALID stops an
\* asserting build; other builds go on with the pointer left null.
GS_SelectClip ==
    /\ gs.pc = "invoke"
    /\ GsInstanceLoopDone(gs.instance, gs.instanceCount)
    /\ LET chosen == IF gs.HasRast
                     THEN GsClipFunc(gs.outputTopology)
                     ELSE [fn |-> "nullptr", invalid |-> FALSE]
       IN  \E asserts \in BOOLEAN :
              gs' = [gs EXCEPT
                        !.pfnClipFunc = chosen.fn,
                        !.invalid = chosen.invalid,
                        !.inputPrim = 0,
                        !.pc = IF chosen.invalid /\ asserts
                               THEN "aborted"
                               ELSE "prims"]
    /\ UNCHANGED <<call, drawVars, fn, so, workerVars>>

\* One iteration of the loop over the input primitives: every instance and
\* every stream of the primitive.
GS_InputPrim ==
    /\ gs.pc = "prims"
    /\ gs.inputPrim < gs.numInputPrims
    /\ LET events == GsEmitLoop(gs, gs.inputPrim, 0)
           faults == \E k \in 1..Len(events) : IsNullCall(events[k])
       IN  gs' = [gs EXCEPT
                     !.calls = @ \o (IF faults THEN UpToNullCall(events) ELSE events),
                     !.inputPrim = @ + 1,
                     !.pc = IF faults THEN "fault" ELSE "prims"]
    /\ UNCHANGED <<call, drawVars, fn, so, workerVars>>

\* "update GS pipeline stats"
GS_Stats ==
    /\ gs.pc = "prims"
    /\ gs.inputPrim >= gs.numInputPrims
    /\ gs' = [gs EXCEPT
                 !.GsInvocations = @ + gs.numInputPrims * gs.instanceCount,
                 !.pc = "done"]
    /\ UNCHANGED <<call, drawVars, fn, so, workerVars>>

\* The stage is left.
GS_Return ==
    /\ gs.pc \in {"done", "aborted", "fault"}
    /\ gs' = NoGs
    /\ UNCHANGED <<call, drawVars, fn, so, workerVars>>

(***************************************************************************)
(* GeometryShaderStage, the vertex counts.  Every invocation of the shader *)
(* leaves in tlsGsContext.vertexCount, lane by lane, the number of         *)
(* vertices it emitted for each input primitive.  Here gs is a record      *)
(*   pc        "count-invoke", "count-prims" or "count-done"               *)
(*   instanceCount, numInputPrims                                          *)
(*   instance, inputPrim       loop counters                               *)
(*   emittedBy   for each invocation made, the count per input primitive   *)
(*   vertexCount tlsGsContext.vertexCount                                  *)
(*   built     the nested assemblers constructed, in order                 *)
(***************************************************************************)
\* The stage is entered with a batch of input primitives.
GSV_Begin ==
    /\ gs.pc = "idle"
    /\ \E instanceCount \in 1..MaxGsInstances,
          numInputPrims \in 1..MaxInputPrims :
          gs' = [pc |-> "count-invoke", instanceCount |-> instanceCount,
                 numInputPrims |-> numInputPrims,
                 instance |-> 0, inputPrim |-> 0, emittedBy |-> <<>>,
                 vertexCount |-> [p \in 0..(numInputPrims - 1) |-> 0],
                 built |-> <<>>]
    /\ UNCHANGED <<call, drawVars, fn, so, workerVars>>

\* One iteration of the loop that executes the geometry shader: the shader
\* writes the counts of this invocation to tlsGsContext.vertexCount.
GSV_Invoke ==
    /\ gs.pc = "count-invoke"
    /\ ~GsInstanceLoopDone(gs.instance, gs.instanceCount)
    /\ \E counts \in [0..(gs.numInputPrims - 1) -> {0, 1, MaxEmit}] :
          gs' = [gs EXCEPT !.emittedBy = Append(@, counts),
                           !.vertexCount = counts,
                           !.instance = @ + 1]
    /\ UNCHANGED <<call, drawVars, fn, so, workerVars>>

\* The instances of one input primitive:
\* numEmittedVerts = pVertexCount[inputPrim]; none is skipped, otherwise
\* PA_STATE_CUT gsPa(pDC, pBase, numEmittedVerts, ...) is built for the
\* streams of the instance.
RECURSIVE GsBuiltFor(_, _, _, _)
GsBuiltFor(vertexCount, inputPrim, instance, instanceCount) ==
    IF GsInstanceLoopDone(instance, instanceCount)
    THEN <<>>
    ELSE (IF vertexCount[inputPrim] = 0
          THEN <<>>
          ELSE <<[inputPrim |-> inputPrim, instance |-> instance,
                  numEmittedVerts |-> vertexCount[inputPrim]]>>)
         \o GsBuiltFor(vertexCount, inputPrim, instance + 1, instanceCount)

\* One iteration of the loop over the input primitives, or its end.
GSV_InputPrim ==
    /\ \/ gs.pc = "count-invoke" /\ GsInstanceLoopDone(gs.instance, gs.instanceCount)
       \/ gs.pc = "count-prims"
    /\ gs' = IF gs.inputPrim < gs.numInputPrims
             THEN [gs EXCEPT
                      !.built = @ \o GsBuiltFor(gs.vertexCount, gs.inputPrim,
                                                0, gs.instanceCount),
                      !.inputPrim = @ + 1,
                      !.pc = "count-prims"]
             ELSE [gs EXCEPT !.pc = "count-done"]
    /\ UNCHANGED <<call, drawVars, fn, so, workerVars>>

\* The stage is left.
GSV_Return ==
    /\ gs.pc = "count-done"
    /\ gs' = NoGs
    /\ UNCHANGED <<call, drawVars, fn, so, workerVars>>

(***************************************************************************)
(* ProcessSync and ProcessShutdown.  tileMgr is a record:                  *)
(*   pc        "idle", "sync", "shutdown" or "done"                        *)
(*   handler   the front-end handler that runs                             *)
(*   numThreads, numaMask      pContext->threadPool                        *)
(*   i, n      the loop counters of ProcessShutdown                        *)
(*   enqueued  the pTileMgr->enqueue(x, y, &work) calls made, in order     *)
(***************************************************************************)
NoHandler == [pc |-> "idle"]

\* One call of pTileMgr->enqueue(x, y, &work).
Enqueue(x, y, type) == [x |-> x, y |-> y, type |-> type]

\* The loop over the NUMA nodes stops one node early.
ShutdownNodesDone_OneLess(n, numNumaNodes) == ~(n < numNumaNodes - 1)

\* for (n = 0; n < numNumaNodes; ++n): over.
ShutdownNodesDone(n, numNumaNodes) == ~(n < numNumaNodes)

\* for (i = 0; i < pContext->threadPool.numThreads; ++i): over.
ShutdownThreadsDone(thread, numThreads) == ~(thread < numThreads)

\* A sync or a shutdown is handed to the front end.
FE_Begin ==
    /\ tileMgr.pc = "idle"
    /\ \E handler \in {"ProcessSync", "ProcessShutdown"},
          numThreads \in 1..MaxThreads, numaMask \in 0..MaxNumaMask :
          tileMgr' = [pc |-> IF handler = "ProcessSync" THEN "sync" ELSE "shutdown",
                      handler |-> handler,
                      numThreads |-> numThreads, numaMask |-> numaMask,
                      i |-> 0, n |-> 0, enqueued |-> <<>>]
    /\ UNCHANGED <<call, drawVars, fn, so, gs, ts, threads>>

\* ProcessSync: work.type = SYNC; pTileMgr->enqueue(0, 0, &work).
FE_ProcessSync ==
    /\ tileMgr.pc = "sync"
    /\ tileMgr' = [tileMgr EXCEPT
                      !.enqueued = Append(@, Enqueue(0, 0, "SYNC")),
                      !.pc = "done"]
    /\ UNCHANGED <<call, drawVars, fn, so, gs, ts, threads>>

\* ProcessShutdown: one step of the two nested loops, with
\* numNumaNodes = numaMask + 1.
FE_ProcessShutdown ==
    /\ tileMgr.pc = "shutdown"
    /\ LET numNumaNodes == tileMgr.numaMask + 1
       IN  IF ShutdownThreadsDone(tileMgr.i, tileMgr.numThreads)
           THEN tileMgr' = [tileMgr EXCEPT !.pc = "done"]
           ELSE IF ShutdownNodesDone(tileMgr.n, numNumaNodes)
           THEN tileMgr' = [tileMgr EXCEPT !.i = @ + 1, !.n = 0]
           ELSE tileMgr' = [tileMgr EXCEPT
                               !.enqueued = Append(@, Enqueue(tileMgr.i, tileMgr.n,
                                                              "SHUTDOWN")),
                               !.n = @ + 1]
    /\ UNCHANGED <<call, drawVars, fn, so, gs, ts, threads>>

\* The handler returns.
FE_Return ==
    /\ tileMgr.pc = "done"
    /\ tileMgr' = NoHandler
    /\ UNCHANGED <<call, drawVars, fn, so, gs, ts, threads>>

(***************************************************************************)
(* ProcessClear, ProcessStoreTiles and ProcessDiscardInvalidateTiles.      *)
(* Here tileMgr is a record:                                               *)
(*   pc        "tiles" (in the loops), "done", or "aborted" (an SWR_ASSERT *)
(*             stopped an asserting build)                                 *)
(*   handler, type   the handler and its work.type                         *)
(*   rect, fullTilesOnly   the descriptor (rect is int32_t xmin, ymin,     *)
(*             xmax, ymax)                                                 *)
(*   macroTileXMin, macroTileXMax, macroTileYMin, macroTileYMax, x, y      *)
(*             uint32_t locals, each kept as the int32_t with the same     *)
(*             bits: -1 is 0xFFFFFFFF                                      *)
(*   enqueued  the pTileMgr->enqueue(x, y, &work) calls made, in order     *)
(***************************************************************************)
KNOB_MACROTILE_X_DIM == 32

KNOB_MACROTILE_Y_DIM == 32

KNOB_NUM_HOT_TILES_X == 256

KNOB_NUM_HOT_TILES_Y == 256

\* a / b of int operands: the quotient truncated toward zero.
IntDiv(a, b) == IF a >= 0 THEN a \div b ELSE -((-a) \div b)

\* a <= b of uint32_t operands kept as int32_t bit patterns.
LeqU32(a, b) ==
    IF (a >= 0) = (b >= 0) THEN a <= b ELSE a >= 0

\* "compute macro tile bounds for the specified rect".  ProcessClear and
\* ProcessStoreTiles take the tiles the rectangle touches;
\* ProcessDiscardInvalidateTiles with fullTilesOnly rounds the minimum up
\* and takes xmax / DIM - 1, and brings the maxima down to
\* KNOB_NUM_HOT_TILES_X/Y with std::min<int32_t>.
MacroTileBounds(handler, rect, fullTilesOnly) ==
    LET partial == [macroTileXMin |-> IntDiv(rect.xmin, KNOB_MACROTILE_X_DIM),
                    macroTileXMax |-> IntDiv(rect.xmax - 1, KNOB_MACROTILE_X_DIM),
                    macroTileYMin |-> IntDiv(rect.ymin, KNOB_MACROTILE_Y_DIM),
                    macroTileYMax |-> IntDiv(rect.ymax - 1, KNOB_MACROTILE_Y_DIM)]
        full == [macroTileXMin |-> IntDiv(rect.xmin + KNOB_MACROTILE_X_DIM - 1,
                                          KNOB_MACROTILE_X_DIM),
                 macroTileXMax |-> IntDiv(rect.xmax, KNOB_MACROTILE_X_DIM) - 1,
                 macroTileYMin |-> IntDiv(rect.ymin + KNOB_MACROTILE_Y_DIM - 1,
                                          KNOB_MACROTILE_Y_DIM),
                 macroTileYMax |-> IntDiv(rect.ymax, KNOB_MACROTILE_Y_DIM) - 1]
        b == IF fullTilesOnly THEN full ELSE partial
    IN  IF handler = "ProcessDiscardInvalidateTiles"
        THEN [b EXCEPT
                 !.macroTileXMax = IF @ < KNOB_NUM_HOT_TILES_X
                                   THEN @ ELSE KNOB_NUM_HOT_TILES_X,
                 !.macroTileYMax = IF @ < KNOB_NUM_HOT_TILES_Y
                                   THEN @ ELSE KNOB_NUM_HOT_TILES_Y]
        ELSE partial

\* SWR_ASSERT(macroTileXMax <= KNOB_NUM_HOT_TILES_X) and the same for Y,
\* on the bounds before std::min: whether both hold.
DiscardBoundsAsserted(rect, fullTilesOnly) ==
    LET b == MacroTileBounds("ProcessClear", rect, FALSE)
        xmax == IF fullTilesOnly
                THEN IntDiv(rect.xmax, KNOB_MACROTILE_X_DIM) - 1
                ELSE b.macroTileXMax
        ymax == IF fullTilesOnly
                THEN IntDiv(rect.ymax, KNOB_MACROTILE_Y_DIM) - 1
                ELSE b.macroTileYMax
    IN  LeqU32(xmax, KNOB_NUM_HOT_TILES_X) /\ LeqU32(ymax, KNOB_NUM_HOT_TILES_Y)

\* Rectangle coordinates of the model: at and next to macrotile borders,
\* at the start and at the end of the hot tiles.
TileCoords ==
    {0, 1, KNOB_MACROTILE_X_DIM, KNOB_MACROTILE_X_DIM + 1,
     2 * KNOB_MACROTILE_X_DIM,
     KNOB_NUM_HOT_TILES_X * KNOB_MACROTILE_X_DIM,
     (KNOB_NUM_HOT_TILES_X + 1) * KNOB_MACROTILE_X_DIM}

\* A clear, a store or a discard is handed to the front end: the bounds
\* are computed and the loops start.
FT_Begin ==
    /\ tileMgr.pc = "idle"
    /\ \E handler \in {"ProcessClear", "ProcessStoreTiles",
                       "ProcessDiscardInvalidateTiles"},
          xmin \in TileCoords, xmax \in TileCoords,
          ymin \in TileCoords, ymax \in TileCoords,
          fullTilesOnly \in BOOLEAN, asserts \in BOOLEAN :
          /\ xmin <= xmax /\ ymin <= ymax
          /\ handler # "ProcessDiscardInvalidateTiles" => ~fullTilesOnly /\ ~asserts
          /\ LET rect == [xmin |-> xmin, ymin |-> ymin, xmax |-> xmax, ymax |-> ymax]
                 b == MacroTileBounds(handler, rect, fullTilesOnly)
             IN  tileMgr' =
                     [pc |-> IF asserts /\ ~DiscardBoundsAsserted(rect, fullTilesOnly)
                             THEN "aborted" ELSE "tiles",
                      handler |-> handler,
                      type |-> CASE handler = "ProcessClear" -> "CLEAR"
                                 [] handler = "ProcessStoreTiles" -> "STORETILES"
                                 [] OTHER -> "DISCARDINVALIDATETILES",
                      rect |-> rect, fullTilesOnly |-> fullTilesOnly,
                      macroTileXMin |-> b.macroTileXMin,
                      macroTileXMax |-> b.macroTileXMax,
                      macroTileYMin |-> b.macroTileYMin,
                      macroTileYMax |-> b.macroTileYMax,
                      x |-> b.macroTileXMin, y |-> b.macroTileYMin,
                      enqueued |-> <<>>]
    /\ UNCHANGED <<call, drawVars, fn, so, gs, ts, threads>>

\* One step of the two nested loops: y outside and x inside in ProcessClear
\* and ProcessStoreTiles, x outside and y inside in
\* ProcessDiscardInvalidateTiles.  The counters are uint32_t and compared
\* with <=.
FT_Loop ==
    /\ tileMgr.pc = "tiles"
    /\ Len(tileMgr.enqueued) < MaxEnqueue
    /\ tileMgr.x - tileMgr.macroTileXMin <= MaxEnqueue
    /\ tileMgr.y - tileMgr.macroTileYMin <= MaxEnqueue
    /\ LET t == tileMgr
           xOuter == t.handler = "ProcessDiscardInvalidateTiles"
           outer == IF xOuter THEN t.x ELSE t.y
           outerMax == IF xOuter THEN t.macroTileXMax ELSE t.macroTileYMax
           inner == IF xOuter THEN t.y ELSE t.x
           innerMax == IF xOuter THEN t.macroTileYMax ELSE t.macroTileXMax
           next(c) == IF c = -1 THEN 0 ELSE c + 1
       IN  IF ~LeqU32(outer, outerMax)
           THEN tileMgr' = [t EXCEPT !.pc = "done"]
           ELSE IF ~LeqU32(inner, innerMax)
           THEN tileMgr' = IF xOuter
                           THEN [t EXCEPT !.x = next(@), !.y = t.macroTileYMin]
                           ELSE [t EXCEPT !.y = next(@), !.x = t.macroTileXMin]
           ELSE tileMgr' =
                    [t EXCEPT
                        !.enqueued = Append(@, Enqueue(t.x, t.y, t.type)
                                               @@ [desc |-> t.rect]),
                        !.x = IF xOuter THEN @ ELSE next(@),
                        !.y = IF xOuter THEN next(@) ELSE @]
    /\ UNCHANGED <<call, drawVars, fn, so, gs, ts, threads>>

(***************************************************************************)
(* TessellationStages on one worker thread, with the dispatch of           *)
(* ProcessDraw that calls it.  ts is a record:                             *)
(*   pc        where the worker is; "fault" after a call through a null    *)
(*             pointer                                                     *)
(*   build     "unset", "simd8" or "simd16" (USE_SIMD16_FRONTEND)          *)
(*   allocated, pTxCtx, tsCtxSize, pDSOutput, numDSOutputVectors           *)
(*             gt_pTessellationThreadData: whether it is allocated and     *)
(*             its members; pTxCtx is the size of the context buffer, 0    *)
(*             for nullptr; pDSOutput is TRUE when not nullptr             *)
(*   ctxAllocs the context buffers allocated by the thread so far          *)
(*   tmpl, numDsOutputAttribs, postDSTopology, batch    the draw and      *)
(*             pa.NumPrims() of the assembled batch that is dispatched     *)
(*   calls     the stage calls of the batch still to make                  *)
(*   callLog   calls and returns of the stages of the batch, in order      *)
(*   numPrims, useAlternateOffset       of the TessellationStages call     *)
(*   initCalls the handles returned by TSInitCtx in this call              *)
(*   tsCtx, destroyed   the handle, and the TSDestroyCtx calls made        *)
(*   pfnClipFunc, invalid      the clip function chosen in this call;      *)
(*             SWR_INVALID hit                                             *)
(*   hsRan     the hull shader has run in this call                        *)
(*   p, tsData, required, vectorOffset, dsInvocations, pending             *)
(*             locals of the loop over the patches; pending is the number  *)
(*             of primitives tessPa still has                              *)
(*   patchLog  what was done for the current patch, in order, the          *)
(*             SWR_ASSERTs of the patch that failed included               *)
(*   asserts   the SWR_ASSERTs of the context initialization of the call   *)
(*             that failed                                                 *)
(***************************************************************************)
NoTsData == [NumDomainPoints |-> 0, NumPrimitives |-> 0]

NoTmpl ==
    [HasTessellation |-> FALSE, HasGeometryShader |-> FALSE,
     HasStreamOut |-> FALSE, HasRast |-> FALSE]

NoTs ==
    [pc |-> "idle", build |-> "unset",
     allocated |-> FALSE, pTxCtx |-> 0, tsCtxSize |-> 0,
     pDSOutput |-> FALSE, numDSOutputVectors |-> 0, ctxAllocs |-> 0,
     tmpl |-> NoTmpl, numDsOutputAttribs |-> 0,
     postDSTopology |-> TOP_TRIANGLE_LIST, batch |-> 0,
     calls |-> <<>>, callLog |-> <<>>,
     numPrims |-> 0, useAlternateOffset |-> FALSE,
     initCalls |-> <<>>, tsCtx |-> "nullptr", destroyed |-> 0,
     pfnClipFunc |-> "nullptr", invalid |-> FALSE,
     hsRan |-> FALSE, p |-> 0, tsData |-> NoTsData, required |-> 0,
     vectorOffset |-> 0, dsInvocations |-> 0, pending |-> 0,
     patchLog |-> <<>>, asserts |-> {}]

Max(a, b) == IF a > b THEN a ELSE b

\* The size of the tessellator's context.
TS_CTX_SIZE == 64

\* TSInitCtx(domain, partitioning, topology, pContextMem, memSize): the
\* handle, null when the buffer is missing or smaller than the context, and
\* the size it reports in memSize.
TSInitCtx(pContextMem, memSize) ==
    IF pContextMem # 0 /\ pContextMem >= TS_CTX_SIZE /\ memSize >= TS_CTX_SIZE
    THEN [handle |-> "tsCtx", memSize |-> memSize]
    ELSE [handle |-> "nullptr", memSize |-> TS_CTX_SIZE]

\* TSTessellate: what the tessellator makes of a patch, a number of domain
\* points and a number of primitives.  Neither number is bound to the other:
\* domain points may come without a primitive, and primitives without a
\* domain point.
TessellatorOutputs ==
    {[NumDomainPoints |-> d, NumPrimitives |-> n] :
        d \in {0, 1, KNOB_SIMD_WIDTH, KNOB_SIMD_WIDTH + 1, MaxDomainPoints},
        n \in {0, 1, KNOB_SIMD_WIDTH + 1, MaxTessPrims}}

\* No context buffer is allocated.
AllocTxCtx_Null(tsCtxSize) == 0

\* pTxCtx = AlignedMalloc(gt_pTessellationThreadData->tsCtxSize, 64): the
\* size of the buffer.
AllocTxCtx(tsCtxSize) == tsCtxSize

\* No patch is passed over.
PatchIsEmpty_Never(tsData) == FALSE

\* if (tsData.NumPrimitives == 0) continue;
PatchIsEmpty(tsData) == tsData.NumPrimitives = 0

\* RoundUpEven: (value + 1) & ~1
RoundUpEven(value) == ((value + 1) \div 2) * 2

\* AlignUp(tsData.NumDomainPoints, KNOB_SIMD_WIDTH) / KNOB_SIMD_WIDTH
RequiredDSVectorInvocations(NumDomainPoints) ==
    AlignUp(NumDomainPoints, KNOB_SIMD_WIDTH) \div KNOB_SIMD_WIDTH

\* The capacity kept after a reallocation of the DS output.
AllocatedDSOutputVectors(simd16, invocations, numDsOutputAttribs) ==
    IF simd16
    THEN RoundUpEven(invocations) * numDsOutputAttribs
    ELSE invocations * numDsOutputAttribs

\* The DS output is never reallocated.
GrowDSOutput_Never(t, invocations) == t

\* "Allocate DS Output memory": the thread data afterwards.
GrowDSOutput(t, invocations) ==
    IF invocations * t.numDsOutputAttribs > t.numDSOutputVectors
    THEN [t EXCEPT
             !.pDSOutput = TRUE,
             !.numDSOutputVectors =
                 AllocatedDSOutputVectors(t.build = "simd16", invocations,
                                          t.numDsOutputAttribs)]
    ELSE t

\* The 16-wide build at the end of TessellationStages: the DS output is
\* freed and its capacity set to 0.
ReleaseDSOutput(t) ==
    IF t.build = "simd16"
    THEN [t EXCEPT !.pDSOutput = FALSE, !.numDSOutputVectors = 0]
    ELSE t

\* numPrims_lo = std::min(numPrims, KNOB_SIMD_WIDTH)
NumPrimsLo(numPrims) == Min(numPrims, KNOB_SIMD_WIDTH)

\* The high half is given all the primitives.
NumPrimsHi_Whole(numPrims) == numPrims

\* numPrims_hi = std::max(numPrims, KNOB_SIMD_WIDTH) - KNOB_SIMD_WIDTH
NumPrimsHi(numPrims) == Max(numPrims, KNOB_SIMD_WIDTH) - KNOB_SIMD_WIDTH

StageCall(callee, numPrims, useAlternateOffset) ==
    [callee |-> callee, numPrims |-> numPrims,
     useAlternateOffset |-> useAlternateOffset]

\* The calls of a stage for one assembled batch: one call in the 8-wide
\* build, the low half and, if it has primitives, the high half in the
\* 16-wide build.
StageHalves(callee, simd16, numPrims) ==
    IF simd16
    THEN <<StageCall(callee, NumPrimsLo(numPrims), FALSE)>>
         \o (IF NumPrimsHi(numPrims) # 0
             THEN <<StageCall(callee, NumPrimsHi(numPrims), TRUE)>>
             ELSE <<>>)
    ELSE <<StageCall(callee, numPrims, FALSE)>>

\* The geometry shader is looked at before tessellation.
StageCalls_GsFirst(simd16, tmpl, numPrims) ==
    IF tmpl.HasGeometryShader
    THEN StageHalves("GeometryShaderStage", simd16, numPrims)
    ELSE IF tmpl.HasTessellation
    THEN StageHalves("TessellationStages", simd16, numPrims)
    ELSE <<>>

\* What ProcessDraw calls for an assembled batch: tessellation, else the
\* geometry shader, else stream-out followed by the clipper.
StageCalls(simd16, tmpl, numPrims) ==
    IF tmpl.HasTessellation
    THEN StageHalves("TessellationStages", simd16, numPrims)
    ELSE IF tmpl.HasGeometryShader
    THEN StageHalves("GeometryShaderStage", simd16, numPrims)
    ELSE (IF tmpl.HasStreamOut
          THEN <<StageCall("StreamOut", numPrims, FALSE)>>
          ELSE <<>>)
         \o (IF tmpl.HasRast
             THEN <<StageCall("ProcessPrims", numPrims, FALSE)>>
             ELSE <<>>)

\* A call or a return of a stage, as logged.
CallEvent(what, c) ==
    [ev |-> what, callee |-> c.callee, numPrims |-> c.numPrims,
     useAlternateOffset |-> c.useAlternateOffset]

\* What is done for a patch, as logged: n is the number of domain points of
\* a Tessellate, the vectorOffset of a domain shader call and the number of
\* primitives otherwise; cap is the capacity of the DS output at the time.
TsEvent(name, patch, n, mask, cap, useAlternateOffset) ==
    [ev |-> name, p |-> patch, n |-> n, mask |-> mask, cap |-> cap,
     useAlternateOffset |-> useAlternateOffset]

RECURSIVE GsCallEvents(_, _)
GsCallEvents(patch, halves) ==
    IF halves = <<>>
    THEN <<>>
    ELSE <<TsEvent("GeometryShaderStage", patch, Head(halves).numPrims, 0, 0,
                   Head(halves).useAlternateOffset)>>
         \o GsCallEvents(patch, Tail(halves))

\* tessPa.NumPrims(): the primitives of the next batch of PA_TESS.
TessPaNumPrims(simd16, pending) ==
    Min(pending, IF simd16 THEN 2 * KNOB_SIMD_WIDTH ELSE KNOB_SIMD_WIDTH)

\* The iteration of while (tessPa.HasWork()) calls pfnClipFunc, and the
\* pointer is null.
TessPaNullCall(t) ==
    /\ ~t.tmpl.HasGeometryShader
    /\ t.tmpl.HasRast
    /\ t.pfnClipFunc = "nullptr"

\* One iteration of while (tessPa.HasWork()): the geometry shader stage, or
\* stream-out and, after SWR_ASSERT(pfnClipFunc), the clip function that was
\* chosen.  There is no Clip event for a call through the null pointer.
TessPaEvents(t, numPrims) ==
    IF t.tmpl.HasGeometryShader
    THEN GsCallEvents(t.p, StageHalves("GeometryShaderStage",
                                       t.build = "simd16", numPrims))
    ELSE (IF t.tmpl.HasStreamOut
          THEN <<TsEvent("StreamOut", t.p, numPrims, 0, 0, FALSE)>>
          ELSE <<>>)
         \o (IF ~t.tmpl.HasRast
             THEN <<>>
             ELSE IF TessPaNullCall(t)
             THEN <<TsEvent("SWR_ASSERT(pfnClipFunc)", t.p, 0, 0, 0, FALSE)>>
             ELSE <<TsEvent("Clip", t.p, numPrims, GenMask(numPrims), 0, FALSE)>>)

\* Numbers of primitives of the assembled batches of ProcessDraw: up to a
\* batch of the 8-wide build, and more than that in the 16-wide build.
BatchSizes(simd16) ==
    (1..MaxPatches)
    \cup (IF simd16 THEN {KNOB_SIMD_WIDTH + k : k \in 1..MaxPatches} ELSE {})

\* ProcessDraw up to an assembled batch: AllocateTessellationData when
\* tessellation is on, and the stage calls of the batch.
TS_Draw ==
    /\ ts.pc = "idle"
    /\ \E simd16 \in (IF ts.build = "unset" THEN BOOLEAN ELSE {ts.build = "simd16"}),
          HasTessellation \in BOOLEAN, HasGeometryShader \in BOOLEAN,
          HasStreamOut \in BOOLEAN, HasRast \in BOOLEAN,
          numDsOutputAttribs \in 1..MaxDsAttribs,
          postDSTopology \in {TOP_TRIANGLE_LIST, TOP_POINT_LIST,
                              TOP_TRIANGLE_STRIP} :
          \E numPrims \in BatchSizes(simd16) :
             \* tsState is not read without tessellation, and its topology
             \* only with rasterization
             /\ ~HasTessellation => numDsOutputAttribs = 1
             /\ ~(HasTessellation /\ HasRast) =>
                   postDSTopology = TOP_TRIANGLE_LIST
             \* points are the output of draws that rasterize and no more
             /\ (HasGeometryShader \/ HasStreamOut) =>
                   postDSTopology # TOP_POINT_LIST
             /\ LET tmpl == [HasTessellation |-> HasTessellation,
                             HasGeometryShader |-> HasGeometryShader,
                             HasStreamOut |-> HasStreamOut, HasRast |-> HasRast]
                IN  ts' = [ts EXCEPT
                              !.pc = "dispatch",
                              !.build = IF simd16 THEN "simd16" ELSE "simd8",
                              !.allocated = @ \/ HasTessellation,
                              !.tmpl = tmpl,
                              !.numDsOutputAttribs = numDsOutputAttribs,
                              !.postDSTopology = postDSTopology,
                              !.batch = numPrims,
                              !.calls = StageCalls(simd16, tmpl, numPrims),
                              !.callLog = <<>>]
    /\ UNCHANGED <<call, drawVars, fn, so, gs, tileMgr, threads>>

\* The next stage call of the batch.  TessellationStages is entered; the
\* other stages are called and return.
TS_Call ==
    /\ ts.pc = "dispatch"
    /\ ts.calls # <<>>
    /\ LET c == Head(ts.calls)
       IN  IF c.callee = "TessellationStages"
           THEN ts' = [ts EXCEPT
                          !.pc = "init",
                          !.calls = Tail(@),
                          !.callLog = Append(@, CallEvent("call", c)),
                          !.numPrims = c.numPrims,
                          !.useAlternateOffset = c.useAlternateOffset,
                          !.initCalls = <<>>, !.tsCtx = "nullptr",
                          !.destroyed = 0, !.pfnClipFunc = "nullptr",
                          !.invalid = FALSE, !.hsRan = FALSE, !.p = 0,
                          !.tsData = NoTsData, !.required = 0,
                          !.vectorOffset = 0, !.dsInvocations = 0,
                          !.pending = 0, !.patchLog = <<>>, !.asserts = {}]
           ELSE ts' = [ts EXCEPT
                          !.calls = Tail(@),
                          !.callLog = @ \o <<CallEvent("call", c),
                                             CallEvent("return", c)>>]
    /\ UNCHANGED <<call, drawVars, fn, so, gs, tileMgr, threads>>

\* Every call of the batch is made: on to the next batch or draw.
TS_BatchDone ==
    /\ ts.pc = "dispatch"
    /\ ts.calls = <<>>
    /\ ts' = [NoTs EXCEPT
                 !.build = ts.build, !.allocated = ts.allocated,
                 !.pTxCtx = ts.pTxCtx, !.tsCtxSize = ts.tsCtxSize,
                 !.pDSOutput = ts.pDSOutput,
                 !.numDSOutputVectors = ts.numDSOutputVectors,
                 !.ctxAllocs = ts.ctxAllocs]
    /\ UNCHANGED <<call, drawVars, fn, so, gs, tileMgr, threads>>

\* SWR_ASSERT(gt_pTessellationThreadData) and the first TSInitCtx.
TS_InitCtx ==
    /\ ts.pc = "init"
    /\ LET r == TSInitCtx(ts.pTxCtx, ts.tsCtxSize)
       IN  ts' = [ts EXCEPT
                     !.tsCtxSize = r.memSize,
                     !.initCalls = Append(@, r.handle),
                     !.tsCtx = r.handle,
                     !.asserts = IF ts.allocated
                                 THEN @
                                 ELSE @ \cup {"gt_pTessellationThreadData"},
                     !.pc = IF r.handle = "nullptr" THEN "retry" ELSE "hs"]
    /\ UNCHANGED <<call, drawVars, fn, so, gs, tileMgr, threads>>

\* if (tsCtx == nullptr): the context buffer is allocated with the size
\* reported and TSInitCtx is called again; SWR_ASSERT(tsCtx).
TS_RetryInitCtx ==
    /\ ts.pc = "retry"
    /\ LET pTxCtx == AllocTxCtx(ts.tsCtxSize)
           r == TSInitCtx(pTxCtx, ts.tsCtxSize)
       IN  ts' = [ts EXCEPT
                     !.pTxCtx = pTxCtx,
                     !.ctxAllocs = @ + 1,
                     !.tsCtxSize = r.memSize,
                     !.initCalls = Append(@, r.handle),
                     !.tsCtx = r.handle,
                     !.asserts = IF r.handle = "nullptr"
                                 THEN @ \cup {"tsCtx"}
                                 ELSE @,
                     !.pc = "hs"]
    /\ UNCHANGED <<call, drawVars, fn, so, gs, tileMgr, threads>>

\* With rasterization the clip function is chosen by the topology of the
\* domain shader's output; SWR_INVALID leaves the pointer null and execution
\* goes on, as in a build without assertions.  Then the hull shader runs
\* once for the batch of patches.
TS_HullShader ==
    /\ ts.pc = "hs"
    /\ LET chosen == IF ts.tmpl.HasRast
                     THEN TsClipFunc(ts.postDSTopology)
                     ELSE [fn |-> "nullptr", invalid |-> FALSE]
       IN  ts' = [ts EXCEPT
                     !.pfnClipFunc = chosen.fn,
                     !.invalid = chosen.invalid,
                     !.hsRan = TRUE, !.p = 0, !.pc = "patch"]
    /\ UNCHANGED <<call, drawVars, fn, so, gs, tileMgr, threads>>

\* The tessellator runs for patch p.  A patch without primitives is passed
\* over.  For any other SWR_ASSERT(tsData.NumDomainPoints), the DS output is
\* made large enough for the domain points, SWR_ASSERT(pDSOutput) and
\* SWR_ASSERT(numDSOutputVectors >= requiredDSOutputVectors); execution goes
\* on after an assertion that failed, as in a build without assertions.
TS_Tessellate ==
    /\ ts.pc = "patch"
    /\ ts.p < ts.numPrims
    /\ \E tsData \in TessellatorOutputs :
          LET required == RequiredDSVectorInvocations(tsData.NumDomainPoints)
              logged == <<TsEvent("TSTessellate", ts.p, tsData.NumDomainPoints,
                                  0, ts.numDSOutputVectors, FALSE)>>
              grown == GrowDSOutput(ts, required)
              failed(name) == <<TsEvent(name, ts.p, 0, 0,
                                        grown.numDSOutputVectors, FALSE)>>
          IN  IF PatchIsEmpty(tsData)
              THEN ts' = [ts EXCEPT
                             !.tsData = tsData, !.patchLog = logged,
                             !.p = @ + 1]
              ELSE ts' = [grown EXCEPT
                             !.tsData = tsData,
                             !.patchLog =
                                 logged
                                 \o (IF tsData.NumDomainPoints = 0
                                     THEN failed("SWR_ASSERT(tsData.NumDomainPoints)")
                                     ELSE <<>>)
                                 \o (IF grown.pDSOutput
                                     THEN <<>>
                                     ELSE failed("SWR_ASSERT(pDSOutput)"))
                                 \o (IF grown.numDSOutputVectors >=
                                        required * ts.numDsOutputAttribs
                                     THEN <<>>
                                     ELSE failed("SWR_ASSERT(numDSOutputVectors)")),
                             !.required = required,
                             !.vectorOffset = 0, !.dsInvocations = 0,
                             !.pc = "ds"]
    /\ UNCHANGED <<call, drawVars, fn, so, gs, tileMgr, threads>>

\* One call of the domain shader.
TS_DomainShader ==
    /\ ts.pc = "ds"
    /\ ts.vectorOffset < ts.required
    /\ ts' = [ts EXCEPT
                 !.patchLog =
                     Append(@, TsEvent("DsFunc", ts.p, ts.vectorOffset,
                                       GenerateMask(ts.tsData.NumDomainPoints
                                                    - ts.dsInvocations),
                                       ts.numDSOutputVectors, FALSE)),
                 !.dsInvocations = @ + KNOB_SIMD_WIDTH,
                 !.vectorOffset = @ + 1]
    /\ UNCHANGED <<call, drawVars, fn, so, gs, tileMgr, threads>>

\* The domain shader is done; tessPa is made over its output.
TS_TessPa ==
    /\ ts.pc = "ds"
    /\ ~(ts.vectorOffset < ts.required)
    /\ ts' = [ts EXCEPT
                 !.patchLog = Append(@, TsEvent("PA_TESS", ts.p,
                                                ts.tsData.NumPrimitives, 0,
                                                ts.numDSOutputVectors, FALSE)),
                 !.pending = ts.tsData.NumPrimitives,
                 !.pc = "drain"]
    /\ UNCHANGED <<call, drawVars, fn, so, gs, tileMgr, threads>>

\* One iteration of while (tessPa.HasWork()), tessPa.NextPrim() included.
\* The call of pfnClipFunc through a null pointer ends the worker: there is
\* no NextPrim, no TSDestroyCtx and no return.
TS_TessPrims ==
    /\ ts.pc = "drain"
    /\ ts.pending > 0
    /\ LET numPrims == TessPaNumPrims(ts.build = "simd16", ts.pending)
       IN  IF TessPaNullCall(ts)
           THEN ts' = [ts EXCEPT
                          !.patchLog = @ \o TessPaEvents(ts, numPrims),
                          !.pc = "fault"]
           ELSE ts' = [ts EXCEPT
                          !.patchLog = @ \o TessPaEvents(ts, numPrims),
                          !.pending = @ - numPrims]
    /\ UNCHANGED <<call, drawVars, fn, so, gs, tileMgr, threads>>

\* tessPa has no more work: the next patch.
TS_NextPatch ==
    /\ ts.pc = "drain"
    /\ ts.pending = 0
    /\ ts' = [ts EXCEPT !.p = @ + 1, !.pc = "patch"]
    /\ UNCHANGED <<call, drawVars, fn, so, gs, tileMgr, threads>>

\* After the last patch: the 16-wide build gives the DS output back,
\* TSDestroyCtx(tsCtx), and the stage returns.
TS_Return ==
    /\ ts.pc = "patch"
    /\ ~(ts.p < ts.numPrims)
    /\ ts' = [ReleaseDSOutput(ts) EXCEPT
                 !.destroyed = @ + 1,
                 !.callLog = Append(@, CallEvent("return",
                                 StageCall("TessellationStages", ts.numPrims,
                                           ts.useAlternateOffset))),
                 !.pc = "dispatch"]
    /\ UNCHANGED <<call, drawVars, fn, so, gs, tileMgr, threads>>

(***************************************************************************)
(* Worker threads.  pVertexStore, gVertexStoreSize,                        *)
(* gt_pTessellationThreadData and tlsGsContext have the THREAD storage     *)
(* class: every thread has its own instance of each.  threads.tls maps an  *)
(* instance to its contents, threads.draw a worker to where it is in       *)
(* ProcessDraw.  An allocation is named by the thread that made it and its *)
(* size; by = 0 is nullptr.                                                *)
(***************************************************************************)
\* The two worker threads.
Workers == {1, 2}

MAX_NUM_VERTS_PER_PRIM == 32

\* All threads use one instance.
Tls_Shared(self) == 1

\* The instance of a THREAD variable a thread's accesses go to.
Tls(self) == self

NoStore == [by |-> 0, size |-> 0]

\* gt_pTessellationThreadData = nullptr
NoTessData ==
    [by |-> 0, pTxCtx |-> 0, tsCtxSize |-> 0, pDSOutput |-> 0,
     numDSOutputVectors |-> 0]

\* The values the THREAD variables are initialized with.
NoTls ==
    [pVertexStore |-> NoStore, gVertexStoreSize |-> 0,
     gt_pTessellationThreadData |-> NoTessData, tlsGsContext |-> 0]

NoThreadDraw ==
    [pc |-> "idle", started |-> FALSE, topology |-> TOP_UNKNOWN,
     gsEnable |-> FALSE, HasTessellation |-> FALSE, vertexCount |-> 0,
     pVertexStore |-> NoStore, vertexStoreSize |-> 0]

NoThreads ==
    [build |-> "unset", tls |-> [s \in Workers |-> NoTls],
     draw |-> [w \in Workers |-> NoThreadDraw]]

\* Topology, geometry shader and tessellation of the draws of the workers:
\* patch lists with tessellation, the others without.
ThreadDraws ==
    {[topology |-> t, gsEnable |-> g, HasTessellation |-> t \in PatchLists] :
        t \in {TOP_POINT_LIST, TOP_TRI_LIST_ADJ, TOP_PATCHLIST_BASE + 9,
               TOP_PATCHLIST_BASE + 32},
        g \in BOOLEAN}

\* "grow in chunks of 4 simd16vertex" / "grow in chunks of 8 simdvertex"
VertexStoreChunk(simd16) == IF simd16 THEN 4 ELSE 8

\* while (gVertexStoreSize < vertexCount) gVertexStoreSize += chunk
RECURSIVE GrowVertexStoreSize(_, _, _)
GrowVertexStoreSize(size, vertexCount, chunk) ==
    IF size < vertexCount
    THEN GrowVertexStoreSize(size + chunk, vertexCount, chunk)
    ELSE size

\* The store is made to fit the draw, whatever its size was.
GrowVertexStore_Fit(self, tls, vertexCount, simd16) ==
    LET size == GrowVertexStoreSize(0, vertexCount, VertexStoreChunk(simd16))
    IN  [tls EXCEPT !.gVertexStoreSize = size,
                    !.pVertexStore = [by |-> self, size |-> size]]

\* "grow the vertex store for the PA as necessary": the thread's variables
\* afterwards.
GrowVertexStore(self, tls, vertexCount, simd16) ==
    IF tls.gVertexStoreSize < vertexCount
    THEN LET size == GrowVertexStoreSize(tls.gVertexStoreSize, vertexCount,
                                         VertexStoreChunk(simd16))
         IN  [tls EXCEPT !.gVertexStoreSize = size,
                         !.pVertexStore = [by |-> self, size |-> size]]
    ELSE tls

\* AllocateTessellationData: the thread data is allocated and zeroed if the
\* thread has none.
AllocateTessellationData(self, tls) ==
    IF tls.gt_pTessellationThreadData.by = 0
    THEN [tls EXCEPT !.gt_pTessellationThreadData = [NoTessData EXCEPT !.by = self]]
    ELSE tls

\* work.numVerts of the draws of the workers: no vertex, one vertex short of
\* a primitive, the vertices of one primitive.
ThreadDrawVerts(topology) ==
    {0, NumVertsPerPrim(topology, TRUE) - 1, NumVertsPerPrim(topology, TRUE)}

\* TessellationStages on the thread data: the context buffer is allocated
\* if TSInitCtx returns null, the DS output grows to the invocations of the
\* patch unless the patch is passed over, and the 16-wide build releases it
\* at the end.
TessellateOnThread(self, data, simd16, tsData) ==
    LET first == TSInitCtx(data.pTxCtx, data.tsCtxSize)
        sized == [data EXCEPT !.tsCtxSize = first.memSize]
        ctx == IF first.handle = "nullptr"
               THEN [sized EXCEPT !.pTxCtx = AllocTxCtx(sized.tsCtxSize)]
               ELSE sized
        t == [build |-> IF simd16 THEN "simd16" ELSE "simd8",
              numDsOutputAttribs |-> 1,
              pDSOutput |-> ctx.pDSOutput # 0,
              numDSOutputVectors |-> ctx.numDSOutputVectors]
        grown == IF PatchIsEmpty(tsData)
                 THEN t
                 ELSE GrowDSOutput(t, RequiredDSVectorInvocations(
                                          tsData.NumDomainPoints))
        out == ReleaseDSOutput(grown)
    IN  [ctx EXCEPT
            !.pDSOutput = IF ~out.pDSOutput THEN 0
                          ELSE IF grown.numDSOutputVectors # t.numDSOutputVectors
                               THEN self ELSE @,
            !.numDSOutputVectors = out.numDSOutputVectors]

\* ProcessDraw starts on a worker: the draw's state is read.
TH_Begin(self) ==
    /\ threads.draw[self].pc = "idle"
    /\ \E simd16 \in (IF threads.build = "unset" THEN BOOLEAN
                      ELSE {threads.build = "simd16"}),
          d \in ThreadDraws :
          threads' = [threads EXCEPT
              !.build = IF simd16 THEN "simd16" ELSE "simd8",
              !.draw[self] =
                  [NoThreadDraw EXCEPT
                      !.pc = "tess", !.started = TRUE,
                      !.topology = d.topology, !.gsEnable = d.gsEnable,
                      !.HasTessellation = d.HasTessellation]]
    /\ UNCHANGED <<call, drawVars, fn, so, gs, tileMgr, ts>>

\* if (HasTessellationT::value) AllocateTessellationData(pContext)
TH_AllocTessData(self) ==
    /\ threads.draw[self].pc = "tess"
    /\ threads' = [threads EXCEPT
           !.tls[Tls(self)] =
               IF threads.draw[self].HasTessellation
               THEN AllocateTessellationData(self, @)
               ELSE @,
           !.draw[self].pc = "store"]
    /\ UNCHANGED <<call, drawVars, fn, so, gs, tileMgr, ts>>

\* vertexCount = NumVertsPerPrim(state.topology, state.gsState.gsEnable) and
\* the growth of the vertex store.
TH_VertexStore(self) ==
    /\ threads.draw[self].pc = "store"
    /\ LET vertexCount == NumVertsPerPrim(threads.draw[self].topology,
                                          threads.draw[self].gsEnable)
       IN  threads' = [threads EXCEPT
               !.tls[Tls(self)] = GrowVertexStore(self, @, vertexCount,
                                                  threads.build = "simd16"),
               !.draw[self].vertexCount = vertexCount,
               !.draw[self].pc = "pa"]
    /\ UNCHANGED <<call, drawVars, fn, so, gs, tileMgr, ts>>

\* PA_FACTORY paFactory(pDC, state.topology, work.numVerts, pVertexStore,
\* gVertexStoreSize): the assembler keeps the store and its size.
TH_CreatePA(self) ==
    /\ threads.draw[self].pc = "pa"
    /\ threads' = [threads EXCEPT
           !.draw[self].pVertexStore = threads.tls[Tls(self)].pVertexStore,
           !.draw[self].vertexStoreSize = threads.tls[Tls(self)].gVertexStoreSize,
           !.draw[self].pc = "stages"]
    /\ UNCHANGED <<call, drawVars, fn, so, gs, tileMgr, ts>>

\* The stages of the draw, called if (assemble), that is when the vertices
\* of the draw make a primitive: TessellationStages works on the thread
\* data; GeometryShaderStage, called from there for a patch that is not
\* passed over or else from ProcessDraw, fills tlsGsContext.
TH_Stages(self) ==
    /\ threads.draw[self].pc = "stages"
    /\ \E numVerts \in ThreadDrawVerts(threads.draw[self].topology),
          tsData \in {t \in TessellatorOutputs :
                        /\ t.NumPrimitives <= 1
                        /\ t.NumPrimitives = 0 => t.NumDomainPoints <= 1} :
          LET d == threads.draw[self]
              assemble == GetNumPrims(d.topology, numVerts) > 0
              gsCalled == /\ assemble
                          /\ d.gsEnable
                          /\ d.HasTessellation => ~PatchIsEmpty(tsData)
          IN  \* a patch is looked at only by a draw that tessellates
              /\ ~(assemble /\ d.HasTessellation) => tsData = NoTsData
              /\ threads' = [threads EXCEPT
                  !.tls[Tls(self)] =
                      [@ EXCEPT
                          !.gt_pTessellationThreadData =
                              IF assemble /\ d.HasTessellation
                              THEN TessellateOnThread(self, @,
                                       threads.build = "simd16", tsData)
                              ELSE @,
                          !.tlsGsContext = IF gsCalled THEN self ELSE @],
                  !.draw[self].pc = "return"]
    /\ UNCHANGED <<call, drawVars, fn, so, gs, tileMgr, ts>>

\* ProcessDraw returns; the THREAD variables keep their values.
TH_Return(self) ==
    /\ threads.draw[self].pc = "return"
    /\ threads' = [threads EXCEPT
           !.draw[self] = [NoThreadDraw EXCEPT !.started = TRUE]]
    /\ UNCHANGED <<call, drawVars, fn, so, gs, tileMgr, ts>>

(***************************************************************************)
(* Specifications.                                                         *)
(***************************************************************************)
Init ==
    /\ call = NoCall
    /\ pc = "idle"
    /\ work = NoWork
    /\ state = NoState
    /\ endVertex = 0
    /\ instanceNum = 0
    /\ i = 0
    /\ pa = NoPA
    /\ assembled = NoAssemble
    /\ log = <<>>
    /\ fn = NoFn
    /\ so = NoSo
    /\ gs = NoGs
    /\ tileMgr = NoHandler
    /\ ts = NoTs
    /\ threads = NoThreads

\* One worker executing draws.
Next ==
    \/ PD_Begin
    \/ PD_Instance
    \/ PD_Finish
    \/ PD_FetchShade
    \/ PD_EndInstance
    \/ PD_Assemble
    \/ PD_NextPrim
    \/ PD_Return

Spec == Init /\ [][Next]_vars

\* ProcessDraw at the head of its instance loop, for every draw of the
\* bounds that is rasterized only (the stages called from the dispatch return
\* to the loop whatever they are).
InitLive ==
    /\ call = NoCall
    /\ pc = "instance"
    /\ \E isIndexed \in BOOLEAN, isCutIndexEnabled \in BOOLEAN,
          topology \in DrawTopologies,
          numVerts \in 0..MaxVerts, numInstances \in 1..MaxInstances :
        /\ isCutIndexEnabled => isIndexed
        /\ \E cutIdx \in CutChoices(isIndexed, isCutIndexEnabled, numVerts) :
              work = [numVerts |-> numVerts, numInstances |-> numInstances,
                      cutIdx |-> cutIdx]
        /\ state = [NoState EXCEPT !.IsIndexed = isIndexed,
                                   !.IsCutIndexEnabled = isCutIndexEnabled,
                                   !.HasRast = TRUE,
                                   !.topology = topology]
        /\ endVertex = EndVertexOf(isIndexed, topology, numVerts)
        /\ pa = PA_FACTORY(isIndexed, isCutIndexEnabled, topology, numVerts)
    /\ instanceNum = 0
    /\ i = 0
    /\ assembled = NoAssemble
    /\ log = <<>>
    /\ fn = NoFn
    /\ so = NoSo
    /\ gs = NoGs
    /\ tileMgr = NoHandler
    /\ ts = NoTs
    /\ threads = NoThreads

\* The steps of one draw.
NextLive ==
    \/ PD_Instance
    \/ PD_Finish
    \/ PD_FetchShade
    \/ PD_EndInstance
    \/ PD_Assemble
    \/ PD_NextPrim

\* The draw loop on a worker thread that keeps running: ProcessDraw takes no
\* lock and waits for nothing, so a step that can be taken is taken.
SpecLive == InitLive /\ [][NextLive]_vars /\ WF_vars(NextLive)

\* The topology arithmetic on its own.
NextTopo ==
    \/ Call_GetNumPrims
    \/ Call_GetNumVerts
    \/ Call_NumVertsPerPrim
    \/ Call_PruneToPrims
    \/ Call_Return

SpecTopo == Init /\ [][NextTopo]_vars

\* The batch and GS-buffer helpers on their own.
NextFn ==
    \/ Fn_GetNumInvocations
    \/ Fn_GenerateMask
    \/ Fn_GsBufferInfo
    \/ Fn_ProcessStreamIdBuffer
    \/ Fn_StreamOutGather
    \/ Fn_Return

SpecFn == Init /\ [][NextFn]_vars

\* The vertex counts of the geometry shader's invocations and the nested
\* assemblers built from them.
NextGsCount ==
    \/ GSV_Begin
    \/ GSV_Invoke
    \/ GSV_InputPrim
    \/ GSV_Return

SpecGsCount == Init /\ [][NextGsCount]_vars

\* Clears, stores and discards handed to the front end.
NextTiles ==
    \/ FT_Begin
    \/ FT_Loop
    \/ FE_Return

SpecTiles == Init /\ [][NextTiles]_vars

\* The draws of the 16-wide build, one after another.
NextDraw16 ==
    \/ PD16_Begin
    \/ PD16_Instance
    \/ PD16_FetchShade
    \/ PD16_EndInstance
    \/ PD16_Finish
    \/ PD_Return

SpecDraw16 == Init /\ [][NextDraw16]_vars

\* The StreamOut calls of one draw after another.
NextSo ==
    \/ SO_DrawBegin
    \/ SO_Begin
    \/ SO_Prim
    \/ SO_Publish
    \/ SO_DrawEnd

SpecSo == Init /\ [][NextSo]_vars

\* Syncs and shutdowns handed to the front end, one after another.
NextWork ==
    \/ FE_Begin
    \/ FE_ProcessSync
    \/ FE_ProcessShutdown
    \/ FE_Return

SpecWork == Init /\ [][NextWork]_vars

\* One worker dispatching assembled batches, tessellation called from it.
NextTs ==
    \/ TS_Draw
    \/ TS_Call
    \/ TS_BatchDone
    \/ TS_InitCtx
    \/ TS_RetryInitCtx
    \/ TS_HullShader
    \/ TS_Tessellate
    \/ TS_DomainShader
    \/ TS_TessPa
    \/ TS_TessPrims
    \/ TS_NextPatch
    \/ TS_Return

SpecTs == Init /\ [][NextTs]_vars

\* One GeometryShaderStage call after another.
NextThreads ==
    \E self \in Workers :
        \/ TH_Begin(self)
        \/ TH_AllocTessData(self)
        \/ TH_VertexStore(self)
        \/ TH_CreatePA(self)
        \/ TH_Stages(self)
        \/ TH_Return(self)

\* Two workers executing draws, each step of either in any order.
SpecThreads == Init /\ [][NextThreads]_vars

NextGs ==
    \/ GS_Begin
    \/ GS_Invoke
    \/ GS_SelectClip
    \/ GS_InputPrim
    \/ GS_Stats
    \/ GS_Return

SpecGs == Init /\ [][NextGs]_vars

(***************************************************************************)
(* Properties of the topology arithmetic (checked under SpecTopo).         *)
(***************************************************************************)
\* Topologies with an arithmetic case of their own in GetNumPrims.
SupportedTopologies == Topologies \ InvalidCases

\* C7: for every supported topology T and count n, the pruned count
\* v = GetNumVerts(T, GetNumPrims(T, n)) is at most n, has the same number of
\* primitives as n, is the largest count m <= n that the round trip leaves
\* unchanged, and is left unchanged by a second round trip.
C7_RoundTripPrunes ==
    (call.fn = "PruneToPrims" /\ call.mode \in SupportedTopologies) =>
        /\ 0 <= call.ret /\ call.ret <= call.n
        /\ GetNumPrims(call.mode, call.ret) = GetNumPrims(call.mode, call.n)
        /\ \A m \in (call.ret + 1)..call.n : PruneToPrims(call.mode, m) # m
        /\ PruneToPrims(call.mode, call.ret) = call.ret

\* A triangle list of 10 vertices has been pruned to 9.
C7_Witness ==
    /\ call.fn = "PruneToPrims"
    /\ call.mode = TOP_TRIANGLE_LIST
    /\ call.n = 10
    /\ call.ret = 9

C8_StripFanLoop ==
    {TOP_TRIANGLE_STRIP, TOP_TRIANGLE_FAN, TOP_TRIANGLE_DISC, TOP_QUAD_STRIP,
     TOP_LINE_STRIP, TOP_LINE_LOOP, TOP_LISTSTRIP_ADJ, TOP_TRI_STRIP_ADJ}

\* Vertices one primitive of the topology is made of, adjacency included
\* (NumVertsPerPrim has no case for the triangle disc, whose count is
\* GetNumVerts of one primitive).
C8_VertsForOnePrim(topology) ==
    IF topology = TOP_TRIANGLE_DISC
    THEN GetNumVerts(topology, 1)
    ELSE NumVertsPerPrim(topology, TRUE)

\* C8: for every strip, fan and loop topology GetNumPrims(T, n) is 0 when n
\* is below the vertices of one primitive of T, at least 1 otherwise, and
\* never the result of a subtraction that wrapped (it lies in 0..n).
C8_FloorsAtZero ==
    (call.fn = "GetNumPrims" /\ call.mode \in C8_StripFanLoop) =>
        /\ call.n < C8_VertsForOnePrim(call.mode) => call.ret = 0
        /\ call.n >= C8_VertsForOnePrim(call.mode) => call.ret >= 1
        /\ 0 <= call.ret /\ call.ret <= call.n

C9_Unsupported ==
    {TOP_POLYGON, TOP_POINT_LIST_BF, TOP_LINE_STRIP_CONT, TOP_LINE_STRIP_BF,
     TOP_LINE_STRIP_CONT_BF, TOP_TRIANGLE_FAN_NOSTIPPLE, TOP_TRI_STRIP_REVERSE,
     TOP_PATCHLIST_BASE, TOP_UNKNOWN}

\* C9: each of GetNumPrims, GetNumVerts and NumVertsPerPrim signals
\* SWR_INVALID for exactly the nine unsupported topologies.
C9_InvalidIffUnsupported ==
    call.fn \in {"GetNumPrims", "GetNumVerts", "NumVertsPerPrim"} =>
        (call.invalid <=> call.mode \in C9_Unsupported)

C10_LineAdjacency == {TOP_LINE_LIST_ADJ, TOP_LISTSTRIP_ADJ}

C10_TriAdjacency == {TOP_TRI_LIST_ADJ, TOP_TRI_STRIP_ADJ}

\* C10: NumVertsPerPrim(T, true) equals NumVertsPerPrim(T, false) for every
\* topology but the four adjacency topologies, where it is double: 4 for
\* the two line topologies (from 2), 6 for the two triangle ones (from 3).
C10_AdjacencyDoubles ==
    (call.fn = "NumVertsPerPrim" /\ call.adj) =>
        CASE call.mode \in C10_LineAdjacency ->
                 /\ NumVertsPerPrim(call.mode, FALSE) = 2
                 /\ call.ret = 4
          [] call.mode \in C10_TriAdjacency ->
                 /\ NumVertsPerPrim(call.mode, FALSE) = 3
                 /\ call.ret = 6
          [] OTHER -> call.ret = NumVertsPerPrim(call.mode, FALSE)

\* The triangle strip with adjacency has been asked for with adjacency.
C10_Witness ==
    /\ call.fn = "NumVertsPerPrim"
    /\ call.adj
    /\ call.mode = TOP_TRI_STRIP_ADJ
    /\ call.ret = 6

(***************************************************************************)
(* Properties of ProcessDraw (checked under Spec).                         *)
(***************************************************************************)
DispatchNames ==
    {"TessellationStages", "GeometryShaderStage", "StreamOut", "ProcessPrims"}

IsDispatch(e) == e.ev \in DispatchNames

\* The dispatch calls of the log, in order.
Dispatches == SelectSeq(log, IsDispatch)

\* Whether lane (from 0) is set in mask.
LaneSet(mask, lane) == (mask \div 2^lane) % 2 = 1

RECURSIVE PopCount(_)
PopCount(mask) == IF mask = 0 THEN 0 ELSE (mask % 2) + PopCount(mask \div 2)

\* Sum of the population counts of the masks passed to the clipper.
RECURSIVE ClipLanes(_)
ClipLanes(events) ==
    IF events = <<>>
    THEN 0
    ELSE (IF Head(events).ev = "ProcessPrims" THEN PopCount(Head(events).mask) ELSE 0)
         + ClipLanes(Tail(events))

\* The primitives assembled for one instance, in order.
RECURSIVE InstancePrims(_, _)
InstancePrims(events, inst) ==
    IF events = <<>>
    THEN <<>>
    ELSE (IF Head(events).ev = "Assemble" /\ Head(events).inst = inst
          THEN Head(events).prims
          ELSE <<>>)
         \o InstancePrims(Tail(events), inst)

\* C1: downstream dispatches are made instance by instance (all of instance
\* k before any of instance k+1) and, within an instance, vertex batch by
\* vertex batch in ascending order, the k-th batch being the one fetched at
\* vertex (k-1) * KNOB_SIMD_WIDTH.
C1_InstanceThenBatchOrder ==
    /\ \A k \in 1..Len(Dispatches) :
          Dispatches[k].i = KNOB_SIMD_WIDTH * (Dispatches[k].batch - 1)
    /\ \A k \in 1..(Len(Dispatches) - 1) :
          /\ Dispatches[k].inst <= Dispatches[k + 1].inst
          /\ Dispatches[k].inst = Dispatches[k + 1].inst =>
                Dispatches[k].i <= Dispatches[k + 1].i

\* A finished draw of two instances or more that dispatched for instance 0
\* and for instance 1, and for two vertex batches of one instance.
C1_Witness ==
    /\ pc = "done"
    /\ work.numInstances >= 2
    /\ \E a, b \in 1..Len(Dispatches) :
          a < b /\ Dispatches[a].inst = 0 /\ Dispatches[b].inst = 1
    /\ \E a, b \in 1..Len(Dispatches) :
          /\ Dispatches[a].inst = Dispatches[b].inst
          /\ Dispatches[a].i < Dispatches[b].i

\* The calls one assembled batch is routed to, by the template flags.
C2_Route(tmpl) ==
    IF tmpl.HasTessellation
    THEN <<"TessellationStages">>
    ELSE IF tmpl.HasGeometryShader
    THEN <<"GeometryShaderStage">>
    ELSE (IF tmpl.HasStreamOut THEN <<"StreamOut">> ELSE <<>>)
         \o (IF tmpl.HasRast THEN <<"ProcessPrims">> ELSE <<>>)

\* C2: a successful Assemble is followed by exactly the calls of one route
\* (tessellation, else geometry shader, else stream-out then the clipper),
\* all for the assembled batch, and NextPrim comes only after them; a failed
\* Assemble is followed by NextPrim directly; nothing is dispatched
\* anywhere else.
C2_OneRoutePerBatch ==
    /\ \A a \in 1..Len(log) :
          log[a].ev = "Assemble" =>
              LET route == IF log[a].ok THEN C2_Route(state) ELSE <<>>
                  n == Len(route)
              IN  /\ a + n <= Len(log)
                  /\ \A k \in 1..n :
                        /\ log[a + k].ev = route[k]
                        /\ log[a + k].prims = log[a].prims
                  /\ a + n + 1 <= Len(log) => log[a + n + 1].ev = "NextPrim"
    /\ \A b \in 1..Len(log) :
          IsDispatch(log[b]) =>
              /\ b > 1
              /\ \/ log[b - 1].ev = "Assemble" /\ log[b - 1].ok
                 \/ IsDispatch(log[b - 1])
    /\ \A b \in 1..Len(log) :
          log[b].ev = "NextPrim" =>
              /\ b > 1
              /\ log[b - 1].ev = "Assemble" \/ IsDispatch(log[b - 1])

\* A finished draw with stream-out and rasterization, no tessellation and no
\* geometry shader, in which an Assemble failed and another was followed by
\* StreamOut and then the clipper.
C2_Witness ==
    /\ pc = "done"
    /\ ~state.HasTessellation /\ ~state.HasGeometryShader
    /\ state.HasStreamOut /\ state.HasRast
    /\ \E a \in 1..Len(log) : log[a].ev = "Assemble" /\ ~log[a].ok
    /\ \E a \in 1..(Len(log) - 2) :
          /\ log[a].ev = "Assemble" /\ log[a].ok
          /\ log[a + 1].ev = "StreamOut"
          /\ log[a + 2].ev = "ProcessPrims"

\* A non-indexed triangle-list draw of one instance that only rasterizes.
C3_Case ==
    /\ pc # "idle"
    /\ ~state.IsIndexed
    /\ state.topology = TOP_TRIANGLE_LIST
    /\ work.numInstances = 1
    /\ ~state.HasTessellation /\ ~state.HasGeometryShader
    /\ ~state.HasStreamOut /\ state.HasRast

\* C3: in such a draw of n vertices no vertex-shader call has an active lane
\* at or beyond endVertex, the clipper masks of the finished draw have
\* GetNumPrims(TRIANGLE_LIST, n) bits set in total, and n = 9 gives one
\* clipper call whose mask is the 3 low lanes.
C3_TriListClipLanes ==
    C3_Case =>
        /\ \A a \in 1..Len(log) :
              log[a].ev = "VertexShader" =>
                  \A lane \in 0..(KNOB_SIMD_WIDTH - 1) :
                      LaneSet(log[a].mask, lane) => log[a].i + lane < endVertex
        /\ pc = "done" =>
              ClipLanes(log) = GetNumPrims(TOP_TRIANGLE_LIST, work.numVerts)
        /\ (pc = "done" /\ work.numVerts = 9) =>
              /\ Len(Dispatches) = 1
              /\ Dispatches[1].ev = "ProcessPrims"
              /\ Dispatches[1].mask = 7

\* The draw of 9 vertices has finished and has called the clipper.
C3_Witness ==
    /\ C3_Case
    /\ pc = "done"
    /\ work.numVerts = 9
    /\ \E a \in 1..Len(log) : log[a].ev = "ProcessPrims" /\ log[a].mask = 7
    /\ \E a \in 1..Len(log) : log[a].ev = "VertexShader" /\ log[a].mask = 1

\* C4: endVertex is the pruned count for non-indexed draws and numVerts for
\* indexed ones; in every loop iteration (one GetNextVsOutput call) the fetch
\* and the vertex shader are called iff the cursor is below endVertex, the
\* shader with exactly min(KNOB_SIMD_WIDTH, endVertex - i) low lanes set.
C4_FetchShadeBelowEndVertex ==
    /\ pc # "idle" =>
          endVertex = IF state.IsIndexed
                      THEN work.numVerts
                      ELSE GetNumVerts(state.topology,
                                       GetNumPrims(state.topology, work.numVerts))
    /\ \A a \in 1..Len(log) :
          log[a].ev = "GetNextVsOutput" =>
              IF log[a].i < endVertex
              THEN /\ a + 2 <= Len(log)
                   /\ log[a + 1].ev = "Fetch" /\ log[a + 1].i = log[a].i
                   /\ log[a + 2].ev = "VertexShader" /\ log[a + 2].i = log[a].i
                   /\ log[a + 2].mask =
                          2^Min(KNOB_SIMD_WIDTH, endVertex - log[a].i) - 1
              ELSE a + 1 <= Len(log) =>
                       log[a + 1].ev \notin {"Fetch", "VertexShader"}
    /\ \A b \in 1..Len(log) :
          /\ log[b].ev = "Fetch" => b > 1 /\ log[b - 1].ev = "GetNextVsOutput"
          /\ log[b].ev = "VertexShader" => b > 1 /\ log[b - 1].ev = "Fetch"

\* A draw whose PA was handed a batch at or beyond endVertex (nothing was
\* fetched for it) after a batch that was shaded with a partial mask, the
\* count of the draw having been pruned.
C4_Witness ==
    /\ ~state.IsIndexed
    /\ endVertex < work.numVerts
    /\ \E a \in 1..Len(log) :
          /\ log[a].ev = "VertexShader"
          /\ log[a].mask # 2^KNOB_SIMD_WIDTH - 1
    /\ \E a \in 1..Len(log) :
          /\ log[a].ev = "GetNextVsOutput"
          /\ log[a].i >= endVertex
          /\ a < Len(log)

\* C5: no assembled primitive has vertices on both sides of a cut (the vertex
\* that carries the cut bit ends its strip, the next vertex starts a new
\* one); an indexed triangle strip of 7 indices with the cut on the fourth
\* gives a strip of two triangles and a strip of one.
C5_CutSplitsStrips ==
    /\ \A a \in 1..Len(log) :
          log[a].ev = "Assemble" =>
              \A k \in 1..Len(log[a].prims) :
                  \A c \in work.cutIdx :
                      \/ \A j \in 1..Len(log[a].prims[k]) : log[a].prims[k][j] <= c
                      \/ \A j \in 1..Len(log[a].prims[k]) : log[a].prims[k][j] > c
    /\ ( /\ pc = "done"
         /\ state.topology = TOP_TRIANGLE_STRIP
         /\ work.numVerts = 7
         /\ work.cutIdx = {3} ) =>
            InstancePrims(log, 0) = << <<0, 1, 2>>, <<1, 2, 3>>, <<4, 5, 6>> >>

\* The indexed triangle strip of 7 indices with the cut on the fourth has
\* been drawn.
C5_Witness ==
    /\ pc = "done"
    /\ state.IsIndexed /\ state.IsCutIndexEnabled
    /\ state.topology = TOP_TRIANGLE_STRIP
    /\ work.numVerts = 7
    /\ work.cutIdx = {3}
    /\ Len(InstancePrims(log, 0)) = 3

\* The draw feeds each instance exactly the vertices of one primitive, with
\* no cut.
C6_Case ==
    /\ pc # "idle"
    /\ work.numVerts = NumVertsPerPrim(state.topology, FALSE)
    /\ work.cutIdx = {}

\* C6: every assembled primitive is made of NumVertsPerPrim(T) distinct
\* vertices; and a PA fed exactly that many vertices and no cut makes
\* Assemble succeed once per instance, with one primitive, after which
\* NextPrim returns false and the PA has no more work (the loop leaves the
\* instance).
C6_OnePrimFromItsVerts ==
    /\ \A a \in 1..Len(log) :
          log[a].ev = "Assemble" =>
              \A k \in 1..Len(log[a].prims) :
                  /\ Len(log[a].prims[k]) = NumVertsPerPrim(state.topology, FALSE)
                  /\ Cardinality({log[a].prims[k][j] : j \in 1..Len(log[a].prims[k])})
                         = NumVertsPerPrim(state.topology, FALSE)
    /\ C6_Case =>
          /\ \A a, b \in 1..Len(log) :
                ( /\ log[a].ev = "Assemble" /\ log[a].ok
                  /\ log[b].ev = "Assemble" /\ log[b].ok
                  /\ log[a].inst = log[b].inst ) => a = b
          /\ \A a \in 1..Len(log) :
                (log[a].ev = "Assemble" /\ log[a].ok) => Len(log[a].prims) = 1
          /\ \A b \in 1..Len(log) :
                ( /\ log[b].ev = "NextPrim"
                  /\ \E a \in 1..(b - 1) :
                        /\ log[a].ev = "Assemble" /\ log[a].ok
                        /\ log[a].inst = log[b].inst ) =>
                    /\ ~log[b].ok
                    /\ b < Len(log) => log[b + 1].ev = "Reset"
          /\ \A inst \in 0..(instanceNum - 1) : Len(InstancePrims(log, inst)) = 1

\* A triangle list of 3 vertices has been drawn and gave its one triangle.
C6_Witness ==
    /\ pc = "done"
    /\ C6_Case
    /\ state.topology = TOP_TRIANGLE_LIST
    /\ InstancePrims(log, 0) = << <<0, 1, 2>> >>

(***************************************************************************)
(* Properties of the batch and GS-buffer helpers (checked under SpecFn).   *)
(***************************************************************************)
\* The mask has exactly the n low bits set.
LowLanes(mask, n) ==
    \A lane \in 0..(2 * KNOB_SIMD_WIDTH - 1) : LaneSet(mask, lane) <=> lane < n

\* C11: GetNumInvocations(i, total) is the batch width when total - i (a
\* 32-bit unsigned difference) is at least the width and total - i otherwise;
\* GenerateMask(r) has exactly the min(width, r) low bits set and no other
\* (0 when r = 0), so its population count is the active-lane count.
C11_ActiveLanesAndMask ==
    /\ fn.fn = "GetNumInvocations" =>
          /\ fn.maxIndex - fn.curIndex >= KNOB_SIMD_WIDTH => fn.ret = KNOB_SIMD_WIDTH
          /\ ( /\ fn.maxIndex - fn.curIndex >= 0
               /\ fn.maxIndex - fn.curIndex < KNOB_SIMD_WIDTH ) =>
                  fn.ret = fn.maxIndex - fn.curIndex
          /\ fn.maxIndex < fn.curIndex => fn.ret = KNOB_SIMD_WIDTH
    /\ fn.fn = "GenerateMask" =>
          /\ LowLanes(fn.ret, Min(KNOB_SIMD_WIDTH, fn.numItemsRemaining))
          /\ fn.numItemsRemaining = 0 => fn.ret = 0
          /\ PopCount(fn.ret) = GetNumInvocations(0, fn.numItemsRemaining)

\* A partial batch: 3 items remain of 11 and the mask of 3 lanes is made.
C11_Witness ==
    \/ fn.fn = "GetNumInvocations" /\ fn.curIndex = 8 /\ fn.maxIndex = 11 /\ fn.ret = 3
    \/ fn.fn = "GenerateMask" /\ fn.numItemsRemaining = 3 /\ fn.ret = 7

\* ceil(bits / 8)
BytesForBits(bits) == (bits + 7) \div 8

\* C16: for every maxNumVerts >= 1 the per-primitive cut/stream-id stride
\* holds the whole packed bitfield: 1 bit per vertex in single-stream mode;
\* 2 bits per vertex, and 1 bit per vertex in the per-stream cut buffer, in
\* multi-stream mode.
C16_StridesHoldBitfields ==
    fn.fn = "GsBufferInfo" =>
        IF fn.isSingleStream
        THEN fn.ret.cutPrimitiveStride >= BytesForBits(fn.maxNumVerts)
        ELSE /\ fn.ret.cutPrimitiveStride >= BytesForBits(2 * fn.maxNumVerts)
             /\ fn.ret.streamCutPrimitiveStride >= BytesForBits(fn.maxNumVerts)

\* Bit v of a byte buffer (index 1 is byte 0).
CutBitAt(buffer, v) == (buffer[(v \div 8) + 1] \div 2^(v % 8)) % 2

\* C17: after ProcessStreamIdBuffer(stream, in, n, out), for every vertex
\* v < n, cut bit v of out is 1 if the stream id of v differs from stream and
\* 0 if it equals stream, for every n >= 1.
C17_CutBitPerVertex ==
    fn.fn = "ProcessStreamIdBuffer" =>
        \A v \in 0..(fn.numEmittedVerts - 1) :
            CutBitAt(fn.out, v) = IF fn.ids[v + 1] # fn.stream THEN 1 ELSE 0

(***************************************************************************)
(* Properties of StreamOut (checked under SpecSo).                         *)
(***************************************************************************)
\* StreamOut has returned at least once in this draw and is not running.
SoReturned == so.pc = "ready" /\ Len(so.published) > 0

\* The calls of the stream-out function made by the current StreamOut call.
SoFuncCalls == SelectSeq(so.calls, LAMBDA e : e.ev = "SoFunc")

\* C12: with a stream-out function that writes one fixed-size record per
\* call, StreamOut over an assembler of k primitives calls it exactly k
\* times, for primitive 0, 1, .., k-1 in that order, and afterwards the
\* write offset of every buffer it writes is the offset before plus k times
\* the record size (the other buffers keep theirs).
C12_OneRecordPerPrim ==
    SoReturned =>
        /\ Len(SoFuncCalls) = so.numPrims
        /\ \A k \in 1..Len(SoFuncCalls) : SoFuncCalls[k].primIndex = k - 1
        /\ \A b \in SoBuffers :
              so.soBuffer[b].streamOffset =
                  so.before.soBuffer[b].streamOffset
                  + (IF b \in so.soFunc.writes
                     THEN so.numPrims * so.soFunc.dwords
                     ELSE 0)

\* A call over 3 primitives with records of 2 dwords has returned.
C12_Witness ==
    /\ SoReturned
    /\ so.numPrims = 3
    /\ so.soFunc.dwords = 2
    /\ so.soFunc.writes = {0}
    /\ so.soBuffer[0].streamOffset = so.before.soBuffer[0].streamOffset + 6
    /\ Len(SoFuncCalls) = 3

\* C13: within one draw the write offset published for each stream-out
\* buffer (into its write-offset slot and into dynState.SoWriteOffset) never
\* decreases from one StreamOut call to the next.
C13_PublishedOffsetsMonotonic ==
    so.pc # "idle" =>
        \A k \in 1..(Len(so.published) - 1) :
            \A b \in SoBuffers :
                /\ so.soBuffer[b].pWriteOffset =>
                      U32Leq(so.published[k].slot[b], so.published[k + 1].slot[b])
                /\ so.soBuffer[b].soWriteEnable =>
                      U32Leq(so.published[k].SoWriteOffset[b],
                             so.published[k + 1].SoWriteOffset[b])

\* streamOffset dwords in bytes, as halves, without the cut to 32 bits.
SoBytes(streamOffset) ==
    [hi |-> streamOffset \div 2^14, lo |-> (streamOffset % 2^14) * 4]

\* C14: after StreamOut, for each of the 4 buffers: a write-offset slot
\* holds the final cursor in bytes; with soWriteEnable,
\* dynState.SoWriteOffset holds the final cursor in bytes and
\* SoWriteOffsetDirty is true; with neither, the slot, SoWriteOffset and
\* SoWriteOffsetDirty are as before the call.
C14_PublishesFinalCursor ==
    SoReturned =>
        \A b \in SoBuffers :
            /\ so.soBuffer[b].pWriteOffset =>
                  so.slot[b] = SoBytes(so.soBuffer[b].streamOffset)
            /\ so.soBuffer[b].soWriteEnable =>
                  /\ so.SoWriteOffset[b] = SoBytes(so.soBuffer[b].streamOffset)
                  /\ so.SoWriteOffsetDirty[b]
            /\ (~so.soBuffer[b].pWriteOffset /\ ~so.soBuffer[b].soWriteEnable) =>
                  /\ so.slot[b] = so.before.slot[b]
                  /\ so.SoWriteOffset[b] = so.before.SoWriteOffset[b]
                  /\ so.SoWriteOffsetDirty[b] = so.before.SoWriteOffsetDirty[b]


(***************************************************************************)
(* GeometryShaderStage.                                                    *)
(***************************************************************************)
\* The stage has gone through all its input primitives.
GsDone == gs.pc = "done"

\* The events of one kind in the record of a stage call.
GsEventsOf(name) == {k \in 1..Len(gs.calls) : gs.calls[k].ev = name}

\* A nested assembler was created for the stream.
GsStreamProcessed(stream) ==
    \E k \in GsEventsOf("PA_STATE_CUT") : gs.calls[k].stream = stream

\* C15: in multi-stream mode with rasterization a stream is skipped only if
\* its stream-out is disabled and it is not the stream routed to the
\* rasterizer, so the primitives of the rasterized stream reach the clip
\* function, also when stream-out is on for the draw and off for that stream.
C15_RasterizedStreamReachesClip ==
    ( /\ GsDone
      /\ ~gs.isSingleStream
      /\ gs.HasRast
      /\ gs.instanceCount >= 1
      /\ Len(gs.emitted) > 0 ) =>
        /\ \A stream \in 0..(MAX_SO_STREAMS - 1) :
              ~GsStreamProcessed(stream) =>
                  /\ ~gs.streamEnable[stream]
                  /\ stream # gs.streamToRasterizer
        /\ gs.streamPrims[gs.streamToRasterizer] # <<>> =>
              \A inputPrim \in 0..(gs.numInputPrims - 1),
                 instance \in 0..(gs.instanceCount - 1) :
                 \E k \in GsEventsOf("Clip") :
                    /\ gs.calls[k].inputPrim = inputPrim
                    /\ gs.calls[k].instance = instance
                    /\ gs.calls[k].stream = gs.streamToRasterizer
                    /\ gs.calls[k].prims = gs.streamPrims[gs.streamToRasterizer]

\* C18: every viewport index handed to the clip function is in
\* [0, KNOB_NUM_VIEWPORTS_SCISSORS): a value the shader wrote outside the
\* range, negative ones included, is replaced by 0, and the index is 0 when
\* the shader writes none.
C18_ViewportIndexInRange ==
    gs.pc # "idle" =>
        \A k \in GsEventsOf("Clip") :
            /\ gs.calls[k].vp \in 0..(KNOB_NUM_VIEWPORTS_SCISSORS - 1)
            /\ ~gs.emitsViewportArrayIndex => gs.calls[k].vp = 0
            /\ ( /\ gs.emitsViewportArrayIndex
                 /\ gs.viewport \in 0..(KNOB_NUM_VIEWPORTS_SCISSORS - 1) ) =>
                    gs.calls[k].vp = gs.viewport
            /\ ( /\ gs.emitsViewportArrayIndex
                 /\ gs.viewport \notin 0..(KNOB_NUM_VIEWPORTS_SCISSORS - 1) ) =>
                    gs.calls[k].vp = 0

\* C19: with rasterization the geometry shader stage takes ClipTriangles,
\* ClipLines, ClipPoints for TRIANGLE_STRIP, LINE_STRIP, POINT_LIST and the
\* tessellation stage for TRIANGLE_LIST, LINE_LIST, POINT_LIST; every other
\* topology is reported invalid, and the stage never calls a null clip
\* function pointer.
C19_ClipSelectionNeverNull ==
    /\ GsClipFunc(TOP_TRIANGLE_STRIP) = [fn |-> "ClipTriangles", invalid |-> FALSE]
    /\ GsClipFunc(TOP_LINE_STRIP) = [fn |-> "ClipLines", invalid |-> FALSE]
    /\ GsClipFunc(TOP_POINT_LIST) = [fn |-> "ClipPoints", invalid |-> FALSE]
    /\ TsClipFunc(TOP_TRIANGLE_LIST) = [fn |-> "ClipTriangles", invalid |-> FALSE]
    /\ TsClipFunc(TOP_LINE_LIST) = [fn |-> "ClipLines", invalid |-> FALSE]
    /\ TsClipFunc(TOP_POINT_LIST) = [fn |-> "ClipPoints", invalid |-> FALSE]
    /\ \A t \in Topologies :
          /\ t \notin {TOP_TRIANGLE_STRIP, TOP_LINE_STRIP, TOP_POINT_LIST} =>
                GsClipFunc(t).invalid
          /\ t \notin {TOP_TRIANGLE_LIST, TOP_LINE_LIST, TOP_POINT_LIST} =>
                TsClipFunc(t).invalid
    /\ ( /\ gs.pc \notin {"idle", "invoke"}
         /\ gs.HasRast ) =>
            /\ gs.pfnClipFunc = GsClipFunc(gs.outputTopology).fn
            /\ gs.invalid = GsClipFunc(gs.outputTopology).invalid
    /\ gs.pc # "idle" =>
          \A k \in GsEventsOf("Clip") : ~IsNullCall(gs.calls[k])

\* C20: one stage call invokes the geometry shader instanceCount times, with
\* InstanceID 0, 1, ... in this order and a mask of the numInputPrims low
\* lanes, all of it before a nested assembler is created; it adds
\* numInputPrims * instanceCount to GsInvocations; with instanceCount = 0 the
\* shader is not invoked and nothing is dispatched.
C20_ShaderOncePerInstance ==
    gs.pc # "idle" =>
        LET shader == GsEventsOf("GsFunc")
        IN  /\ shader = 1..Cardinality(shader)
            /\ \A k \in shader :
                  /\ gs.calls[k].instance = k - 1
                  /\ LowLanes(gs.calls[k].mask, gs.numInputPrims)
            /\ Cardinality(shader) = gs.instance
            /\ gs.instance <= gs.instanceCount
            /\ gs.pc # "invoke" => Cardinality(shader) = gs.instanceCount
            /\ gs.pc = "invoke" => Len(gs.calls) = Cardinality(shader)
            /\ GsDone => gs.GsInvocations = gs.numInputPrims * gs.instanceCount
            /\ gs.instanceCount = 0 => gs.calls = <<>>

\* Two instances over two input primitives, each invoked once and in order,
\* followed by the nested assemblers and the clip calls.
C20_Witness ==
    /\ GsDone
    /\ gs.instanceCount = 2
    /\ gs.numInputPrims = 2
    /\ Cardinality(GsEventsOf("GsFunc")) = 2
    /\ GsEventsOf("Clip") # {}
    /\ gs.GsInvocations = 4

(***************************************************************************)
(* ProcessSync and ProcessShutdown.                                        *)
(***************************************************************************)
\* The enqueue calls of the handler for a worker and a NUMA node.
EnqueuedFor(worker, node, type) ==
    {k \in 1..Len(tileMgr.enqueued) :
        tileMgr.enqueued[k] = Enqueue(worker, node, type)}

\* C27: ProcessShutdown enqueues exactly one SHUTDOWN item for every pair of
\* a worker i < numThreads and a node n <= numaMask,
\* numThreads * (numaMask + 1) items in all, so every worker gets at least one.
C27_ShutdownPerWorkerAndNode ==
    (tileMgr.pc = "done" /\ tileMgr.handler = "ProcessShutdown") =>
        /\ \A worker \in 0..(tileMgr.numThreads - 1), node \in 0..tileMgr.numaMask :
              Cardinality(EnqueuedFor(worker, node, "SHUTDOWN")) = 1
        /\ Len(tileMgr.enqueued) = tileMgr.numThreads * (tileMgr.numaMask + 1)
        /\ \A k \in 1..Len(tileMgr.enqueued) :
              /\ tileMgr.enqueued[k].type = "SHUTDOWN"
              /\ tileMgr.enqueued[k].x \in 0..(tileMgr.numThreads - 1)
              /\ tileMgr.enqueued[k].y \in 0..tileMgr.numaMask
        /\ \A worker \in 0..(tileMgr.numThreads - 1) :
              \E k \in 1..Len(tileMgr.enqueued) : tileMgr.enqueued[k].x = worker

\* A shutdown of three workers on two NUMA nodes has enqueued its six items.
C27_Witness ==
    /\ tileMgr.pc = "done"
    /\ tileMgr.handler = "ProcessShutdown"
    /\ tileMgr.numThreads = 3
    /\ tileMgr.numaMask = 1
    /\ Len(tileMgr.enqueued) = 6

\* C28: ProcessSync enqueues its SYNC item once for every worker and NUMA
\* node, so that every worker observes the sync.
C28_SyncPerWorkerAndNode ==
    (tileMgr.pc = "done" /\ tileMgr.handler = "ProcessSync") =>
        \A worker \in 0..(tileMgr.numThreads - 1), node \in 0..tileMgr.numaMask :
            Cardinality(EnqueuedFor(worker, node, "SYNC")) = 1

(***************************************************************************)
(* TessellationStages.                                                     *)
(***************************************************************************)
\* Positions of the events of one kind in the log of the current patch.
PatchEventsOf(name) == {k \in 1..Len(ts.patchLog) : ts.patchLog[k].ev = name}

\* The last stage call of the batch has returned from TessellationStages.
TsReturned ==
    /\ ts.pc = "dispatch"
    /\ ts.callLog # <<>>
    /\ ts.callLog[Len(ts.callLog)].ev = "return"
    /\ ts.callLog[Len(ts.callLog)].callee = "TessellationStages"

\* The worker is inside TessellationStages, past the context initialization.
TsRunning == ts.pc \in {"hs", "patch", "ds", "drain"}

\* C21: on one worker thread the tracked capacity of the domain-shader
\* output buffer, numDSOutputVectors, never decreases, over any sequence of
\* draws and TessellationStages calls, in the 8-wide and the 16-wide build.
C21_CapacityNeverDecreases ==
    [][ts'.numDSOutputVectors >= ts.numDSOutputVectors]_vars

\* Batches of the batch width that n items need.
CeilBatches(n) == (n + KNOB_SIMD_WIDTH - 1) \div KNOB_SIMD_WIDTH

RECURSIVE ActiveLanes(_)
ActiveLanes(events) ==
    IF events = <<>>
    THEN 0
    ELSE (IF Head(events).ev = "DsFunc" THEN PopCount(Head(events).mask) ELSE 0)
         + ActiveLanes(Tail(events))

\* The domain shader calls logged for the current patch are those of its d
\* domain points: ceil(d / W) calls with vectorOffset 0, 1, ... in order;
\* the mask of call j has the min(W, d - j * W) low lanes set, so that the
\* active lanes add up to d; and at every call the tracked capacity is at
\* least ceil(d / W) * numDsOutputAttribs vectors.
C22_Covered ==
    LET d == ts.tsData.NumDomainPoints
        calls == PatchEventsOf("DsFunc")
    IN  /\ calls = {k + 1 : k \in 1..Cardinality(calls)}
        /\ \A k \in calls :
              LET j == k - 2
              IN  /\ ts.patchLog[k].n = j
                  /\ LowLanes(ts.patchLog[k].mask,
                              Min(KNOB_SIMD_WIDTH, d - j * KNOB_SIMD_WIDTH))
                  /\ ts.patchLog[k].cap >=
                        CeilBatches(d) * ts.numDsOutputAttribs
        /\ Cardinality(calls) <= CeilBatches(d)
        /\ ts.pc = "ds" => Cardinality(calls) = ts.vectorOffset
        /\ ts.pc # "ds" =>
              /\ Cardinality(calls) = CeilBatches(d)
              /\ ActiveLanes(ts.patchLog) = d

\* C22: for a patch with d > 0 domain points the domain shader is invoked
\* ceil(d / W) times, with vectorOffset 0, 1, ... in order; the mask of
\* invocation j has the min(W, d - j * W) low lanes set, so that the active
\* lanes add up to d; and at every invocation the tracked capacity is at
\* least ceil(d / W) * numDsOutputAttribs vectors.
C22_DomainShaderCoversPoints ==
    ts.tsData.NumDomainPoints > 0 => C22_Covered

\* C22, amended: the same for a patch with d > 0 domain points and at least
\* one primitive; a patch without primitives is passed over before the
\* domain shader, whatever its domain points.
C22_DomainShaderCoversTessellated ==
    ( /\ ts.tsData.NumDomainPoints > 0
      /\ ts.tsData.NumPrimitives > 0 ) => C22_Covered

\* A patch of 9 domain points and a primitive: two invocations, the second
\* with one lane.
C22_Witness ==
    /\ ts.pc = "drain"
    /\ ts.tsData.NumDomainPoints = KNOB_SIMD_WIDTH + 1
    /\ ts.tsData.NumPrimitives > 0
    /\ ts.numDsOutputAttribs = 2
    /\ Cardinality(PatchEventsOf("DsFunc")) = 2
    /\ ts.patchLog[2].mask = GenMask(KNOB_SIMD_WIDTH)
    /\ ts.patchLog[3].mask = 1

\* The current patch is passed over: only the tessellator is logged for it,
\* that is no domain shader call, nothing dispatched and no assertion that
\* failed, and the loop is at the next patch.
C23_PassedOver ==
    /\ ts.patchLog = <<TsEvent("TSTessellate", ts.patchLog[1].p,
                               ts.tsData.NumDomainPoints, 0,
                               ts.patchLog[1].cap, FALSE)>>
    /\ ts.asserts = {}
    /\ ts.p = ts.patchLog[1].p + 1
    /\ ts.pc \in {"patch", "dispatch"}

C24_ContextInitRetriedOnce ==
    /\ Len(ts.initCalls) <= 2
    /\ Len(ts.initCalls) = 2 =>
          /\ ts.initCalls[1] = "nullptr"
          /\ ts.ctxAllocs >= 1
          /\ ts.pTxCtx = ts.tsCtxSize
          /\ ts.pTxCtx > 0
    /\ ts.pc = "retry" => ts.initCalls = <<"nullptr">>
    /\ TsRunning =>
          /\ ts.initCalls # <<>>
          /\ ts.tsCtx # "nullptr"
          /\ ts.tsCtx = ts.initCalls[Len(ts.initCalls)]
          /\ ts.destroyed = 0
          /\ ts.asserts = {}
    /\ TsReturned => ts.destroyed = 1 /\ ts.tsCtx # "nullptr"
    /\ ts.destroyed <= 1
    /\ ts.ctxAllocs <= 1

\* A later call on the thread: the buffer allocated by an earlier call is
\* taken by the first TSInitCtx, and the handle is destroyed at the end.
C24_Witness ==
    /\ TsReturned
    /\ ts.ctxAllocs = 1
    /\ ts.initCalls = <<"tsCtx">>
    /\ ts.destroyed = 1

\* With tessellation the stage calls of ProcessDraw are all of
\* TessellationStages, and without it none is and no patch is worked on.
C25_CalledFromProcessDraw ==
    /\ \A k \in 1..Len(ts.callLog) :
          /\ ts.tmpl.HasTessellation => ts.callLog[k].callee = "TessellationStages"
          /\ ~ts.tmpl.HasTessellation => ts.callLog[k].callee # "TessellationStages"
    /\ ~ts.tmpl.HasTessellation =>
          /\ ts.pc \in {"idle", "dispatch"}
          /\ ts.patchLog = <<>>

\* Call k of the log of the patch is made inside TessellationStages with
\* both stages on, after the hull shader, the tessellator and the domain
\* shader calls of the patch, which are those of its domain points.
C25_AfterDomainShaderLoop(k) ==
    /\ ts.tmpl.HasTessellation
    /\ ts.tmpl.HasGeometryShader
    /\ ts.hsRan
    /\ ts.patchLog[1].ev = "TSTessellate"
    /\ ts.patchLog[1].p = ts.patchLog[k].p
    /\ \A j \in PatchEventsOf("DsFunc") :
          j < k /\ ts.patchLog[j].p = ts.patchLog[k].p
    /\ Cardinality(PatchEventsOf("DsFunc")) =
          CeilBatches(ts.tsData.NumDomainPoints)

C30_Expected(callee, numPrims) ==
    LET lo == [callee |-> callee,
               numPrims |-> IF numPrims < KNOB_SIMD_WIDTH
                            THEN numPrims ELSE KNOB_SIMD_WIDTH,
               useAlternateOffset |-> FALSE]
        hi == [callee |-> callee,
               numPrims |-> numPrims - KNOB_SIMD_WIDTH,
               useAlternateOffset |-> TRUE]
    IN  <<CallEvent("call", lo), CallEvent("return", lo)>>
        \o (IF numPrims > KNOB_SIMD_WIDTH
            THEN <<CallEvent("call", hi), CallEvent("return", hi)>>
            ELSE <<>>)

RECURSIVE GsPrimsCovered(_)
GsPrimsCovered(events) ==
    IF events = <<>>
    THEN 0
    ELSE (IF Head(events).ev = "GeometryShaderStage" THEN Head(events).n ELSE 0)
         + GsPrimsCovered(Tail(events))

\* C30: in the 16-wide build the stage call for the low half of an assembled
\* batch, min(numPrims, 8) primitives with useAlternateOffset false, returns
\* before the call for the high half starts; the high half is called only
\* when numPrims > 8, with numPrims - 8 primitives and useAlternateOffset
\* true; the two halves cover the numPrims primitives, in order.
C30_LowHalfBeforeHighHalf ==
    ( /\ ts.build = "simd16"
      /\ ts.pc # "idle"
      /\ ts.tmpl.HasTessellation \/ ts.tmpl.HasGeometryShader ) =>
        LET expected ==
                C30_Expected(IF ts.tmpl.HasTessellation
                             THEN "TessellationStages"
                             ELSE "GeometryShaderStage", ts.batch)
        IN  /\ Len(ts.callLog) <= Len(expected)
            /\ \A k \in 1..Len(ts.callLog) : ts.callLog[k] = expected[k]
            /\ (ts.pc = "dispatch" /\ ts.calls = <<>>) => ts.callLog = expected
            /\ ts.pc # "dispatch" => Len(ts.callLog) \in {1, 3}
            \* the calls made for the batches of tessPa
            /\ \A k \in PatchEventsOf("GeometryShaderStage") :
                  IF ts.patchLog[k].useAlternateOffset
                  THEN /\ ts.patchLog[k].n >= 1
                       /\ ts.patchLog[k - 1].ev = "GeometryShaderStage"
                       /\ ~ts.patchLog[k - 1].useAlternateOffset
                       /\ ts.patchLog[k - 1].n = KNOB_SIMD_WIDTH
                  ELSE ts.patchLog[k].n \in 1..KNOB_SIMD_WIDTH
            /\ ( /\ ts.tmpl.HasGeometryShader
                 /\ ts.patchLog # <<>>
                 /\ ts.pc \in {"patch", "dispatch"} ) =>
                    GsPrimsCovered(ts.patchLog) = ts.tsData.NumPrimitives

\* A batch of 10 patches: the call for the low 8 has returned, then the call
\* for the high 2, which ran the geometry shader stage on both halves of a
\* batch of tessPa.
C30_Witness ==
    /\ ts.build = "simd16"
    /\ ts.batch = 10
    /\ ts.tmpl.HasTessellation
    /\ ts.tmpl.HasGeometryShader
    /\ TsReturned
    /\ Len(ts.callLog) = 4
    /\ ts.callLog[3].numPrims = 2
    /\ ts.callLog[3].useAlternateOffset
    /\ \E k \in PatchEventsOf("GeometryShaderStage") :
          ts.patchLog[k].useAlternateOffset

\* The vertices per primitive of the draw a worker is executing.
ThreadVertexCount(self) ==
    NumVertsPerPrim(threads.draw[self].topology, threads.draw[self].gsEnable)

\* A worker's assembler has been created.
ThreadHasPA(self) == threads.draw[self].pc \in {"stages", "return"}

VertexStoreSized(self) ==
    LET tls == threads.tls[self]
        d == threads.draw[self]
    IN  /\ tls.gVertexStoreSize % (IF threads.build = "simd16" THEN 4 ELSE 8) = 0
        /\ tls.gVertexStoreSize <= MAX_NUM_VERTS_PER_PRIM
        /\ ThreadHasPA(self) =>
              /\ d.vertexStoreSize >= ThreadVertexCount(self)
              /\ d.pVertexStore # NoStore
              /\ d.pVertexStore.size = d.vertexStoreSize

VertexStoreGrows(self) ==
    LET old == threads.tls[self]
        new == threads'.tls[self]
    IN  /\ new.gVertexStoreSize >= old.gVertexStoreSize
        /\ (new.gVertexStoreSize # old.gVertexStoreSize
            \/ new.pVertexStore # old.pVertexStore) =>
              /\ threads.draw[self].pc = "store"
              /\ old.gVertexStoreSize < ThreadVertexCount(self)

\* C26: on a worker thread, over any sequence of draws, gVertexStoreSize
\* never decreases, the store is reallocated only when its size is smaller
\* than NumVertsPerPrim(topology, gsEnable), the size is a multiple of the
\* growth chunk (8, or 4 in the 16-wide build) and at most
\* MAX_NUM_VERTS_PER_PRIM, and when the assembler is created the size is at
\* least NumVertsPerPrim(topology, gsEnable) and the store is not null.
C26_VertexStoreOnlyGrows ==
    /\ [](\A self \in Workers : VertexStoreSized(self))
    /\ [][\A self \in Workers : VertexStoreGrows(self)]_vars

\* A worker of the 16-wide build draws points with the store it grew for
\* patches of nine control points: 12 vertices, kept.
C26_Witness ==
    /\ threads.build = "simd16"
    /\ ThreadHasPA(1)
    /\ ThreadVertexCount(1) = 1
    /\ threads.draw[1].vertexStoreSize = 12
    /\ threads.tls[1].pVertexStore = [by |-> 1, size |-> 12]

\* Every allocation found in the THREAD variables of a thread was made by
\* that thread.
OwnedByThread(self) ==
    LET tls == threads.tls[self]
    IN  /\ tls.pVertexStore.by \in {0, self}
        /\ tls.gt_pTessellationThreadData.by \in {0, self}
        /\ tls.gt_pTessellationThreadData.pDSOutput \in {0, self}
        /\ tls.tlsGsContext \in {0, self}

\* C29: in any interleaving of two worker threads executing ProcessDraw,
\* the vertex store, its size, the tessellation thread data (context
\* buffer, DS output and its capacity) and the GS context of a thread are
\* read and written by that thread only: what they hold was put there by
\* the thread itself, the store its assembler works on is still the
\* thread's store, and they are empty until the thread's first draw needs
\* them.
C29_ThreadOwnsItsScratch ==
    \A self \in Workers :
        /\ OwnedByThread(self)
        /\ ThreadHasPA(self) =>
              /\ threads.draw[self].pVertexStore = threads.tls[self].pVertexStore
              /\ threads.draw[self].vertexStoreSize = threads.tls[self].gVertexStoreSize
        /\ ~threads.draw[self].started => threads.tls[self] = NoTls
        /\ threads.tls[self].gt_pTessellationThreadData.by = 0 =>
              ~(threads.draw[self].HasTessellation
                /\ threads.draw[self].pc \in {"store", "pa", "stages", "return"})

\* Both workers are in the stages of a draw at once, with stores of
\* different sizes, one with tessellation data and one having run the
\* geometry shader.
C29_Witness ==
    /\ threads.draw[1].pc = "stages"
    /\ threads.draw[2].pc = "return"
    /\ threads.tls[1].gVertexStoreSize > threads.tls[2].gVertexStoreSize
    /\ threads.tls[2].pVertexStore.by = 2
    /\ threads.tls[1].gt_pTessellationThreadData.pTxCtx # 0
    /\ threads.tls[2].gt_pTessellationThreadData.by = 0
    /\ threads.tls[2].tlsGsContext = 2

(***************************************************************************)
(* Properties of the GS output buffer layout (checked under SpecFn).       *)
(***************************************************************************)
\* C31: GsBufferInfo makes vertexPrimitiveStride a whole number of SIMD
\* vertices, ceil(maxNumVerts / KNOB_SIMD_WIDTH) of them, and
\* vertexInstanceStride = vertexPrimitiveStride * KNOB_SIMD_WIDTH, so that
\* what any instance emits for any input primitive of the batch starts a
\* whole number of SIMD vertices from the start of the GS output buffer.
C31_VertexStridesWholeBatches ==
    fn.fn = "GsBufferInfo" =>
        /\ fn.ret.vertexPrimitiveStride =
              SIZEOF_SIMDVERTEX
              * ((fn.maxNumVerts + KNOB_SIMD_WIDTH - 1) \div KNOB_SIMD_WIDTH)
        /\ fn.ret.vertexInstanceStride =
              fn.ret.vertexPrimitiveStride * KNOB_SIMD_WIDTH
        /\ \A instance \in 0..(fn.instanceCount - 1),
              inputPrim \in 0..(KNOB_SIMD_WIDTH - 1) :
              GsVertexBase(fn.ret, inputPrim, instance) % SIZEOF_SIMDVERTEX = 0

\* Nine vertices at most take two SIMD vertices per primitive, and the
\* draw has two GS instances.
C31_Witness ==
    /\ fn.fn = "GsBufferInfo"
    /\ fn.maxNumVerts = KNOB_SIMD_WIDTH + 1
    /\ fn.instanceCount = 2
    /\ fn.ret.vertexPrimitiveStride = 2 * SIZEOF_SIMDVERTEX
    /\ GsVertexBase(fn.ret, 1, 1) = 18 * SIZEOF_SIMDVERTEX

(***************************************************************************)
(* Properties of StreamOut's gather (checked under SpecFn).                *)
(***************************************************************************)
\* C35: every store StreamOut makes into the primitive-data buffer lies
\* inside the 4096 bytes ProcessDraw allocated for it, for every bin
\* topology (quad lists and patch lists of up to 32 vertices included) and
\* every stream mask.
C35_GatherStaysInPrimData ==
    fn.fn = "StreamOutGather" =>
        \A g \in 1..Len(fn.ret) :
            \A k \in 1..Len(fn.ret[g].stores) :
                (fn.ret[g].stores[k].offset + 4) * 4 <= SO_PRIM_DATA_BYTES

\* C36: for a primitive StreamOut gathers exactly the attribute slots whose
\* bit is set in the stream mask, in ascending order and each once, each
\* for exactly NumVertsPerPrim(binTopology, false) vertices, and the loop
\* ends for every mask.
C36_GatherFollowsMask ==
    fn.fn = "StreamOutGather" =>
        /\ Len(fn.ret) = Cardinality(fn.soMask)
        /\ {fn.ret[g].slot : g \in 1..Len(fn.ret)} = fn.soMask
        /\ \A g \in 1..(Len(fn.ret) - 1) : fn.ret[g].slot < fn.ret[g + 1].slot
        /\ \A g \in 1..Len(fn.ret) :
              /\ Len(fn.ret[g].stores) = NumVertsPerPrim(fn.binTopology, FALSE)
              /\ \A k \in 1..Len(fn.ret[g].stores) :
                    fn.ret[g].stores[k].v = k - 1

\* Triangles with adjacency and a mask with the top bit: three slots, the
\* last one 31, three vertices each.
C36_Witness ==
    /\ fn.fn = "StreamOutGather"
    /\ fn.binTopology = TOP_TRI_LIST_ADJ
    /\ fn.soMask = {5, 30, 31}
    /\ Len(fn.ret) = 3
    /\ fn.ret[3].slot = 31
    /\ Len(fn.ret[3].stores) = 3

(***************************************************************************)
(* Further properties of GeometryShaderStage (checked under SpecGs).       *)
(***************************************************************************)
\* C34: GeometryShaderStage calls StreamOut for stream s only when the
\* draw has stream-out and streamEnable[s] is set, in single-stream mode
\* as in multi-stream mode.
C34_StreamOutOnlyForEnabledStreams ==
    gs.pc # "idle" =>
        \A k \in 1..Len(gs.calls) :
            gs.calls[k].ev = "StreamOut" =>
                gs.HasStreamOut /\ gs.streamEnable[gs.calls[k].stream]

\* The nested assemblers built for input primitive p and instance j.
BuiltFor(p, j) ==
    SelectSeq(gs.built, LAMBDA b : b.inputPrim = p /\ b.instance = j)

\* C33: with instanceCount >= 2, for every input primitive p and instance
\* j the nested assembler is built over the number of vertices invocation
\* j emitted for p: none is built when it emitted no vertex, and one is
\* built over that many vertices when it emitted some, whatever the other
\* instances emitted for p.
C33_AssemblerOverOwnVertexCount ==
    (gs.pc = "count-done" /\ gs.instanceCount >= 2) =>
        \A p \in 0..(gs.numInputPrims - 1), j \in 0..(gs.instanceCount - 1) :
            IF gs.emittedBy[j + 1][p] = 0
            THEN BuiltFor(p, j) = <<>>
            ELSE /\ Len(BuiltFor(p, j)) = 1
                 /\ BuiltFor(p, j)[1].numEmittedVerts = gs.emittedBy[j + 1][p]

(***************************************************************************)
(* Properties of ProcessClear, ProcessStoreTiles and                       *)
(* ProcessDiscardInvalidateTiles (checked under SpecTiles).                *)
(***************************************************************************)
\* The handler of the model is one of the three that walk macrotiles.
TileHandler(names) == tileMgr.pc \in {"tiles", "done"} /\ tileMgr.handler \in names

\* Macrotile (tx, ty) overlaps the half-open rectangle.
TileOverlaps(rect, tx, ty) ==
    /\ tx * KNOB_MACROTILE_X_DIM < rect.xmax
    /\ (tx + 1) * KNOB_MACROTILE_X_DIM > rect.xmin
    /\ ty * KNOB_MACROTILE_Y_DIM < rect.ymax
    /\ (ty + 1) * KNOB_MACROTILE_Y_DIM > rect.ymin

\* Macrotile (tx, ty) lies entirely inside the rectangle.
TileInside(rect, tx, ty) ==
    /\ tx >= 0 /\ ty >= 0
    /\ tx * KNOB_MACROTILE_X_DIM >= rect.xmin
    /\ (tx + 1) * KNOB_MACROTILE_X_DIM <= rect.xmax
    /\ ty * KNOB_MACROTILE_Y_DIM >= rect.ymin
    /\ (ty + 1) * KNOB_MACROTILE_Y_DIM <= rect.ymax

\* C37: ProcessDiscardInvalidateTiles terminates for every rectangle (no
\* loop bound is the largest uint32_t, which the counter of a loop
\* "c <= bound" never passes), and with fullTilesOnly it enqueues work only
\* for macrotiles entirely inside the rectangle, so none for a rectangle
\* narrower or shorter than a macrotile.
C37_DiscardFullTilesOnly ==
    (TileHandler({"ProcessDiscardInvalidateTiles"}) /\ tileMgr.fullTilesOnly) =>
        /\ tileMgr.macroTileXMax # -1
        /\ tileMgr.macroTileYMax # -1
        /\ \A k \in 1..Len(tileMgr.enqueued) :
              TileInside(tileMgr.rect, tileMgr.enqueued[k].x, tileMgr.enqueued[k].y)

\* C38: every macrotile (x, y) ProcessDiscardInvalidateTiles enqueues has
\* x < KNOB_NUM_HOT_TILES_X and y < KNOB_NUM_HOT_TILES_Y.
C38_DiscardNamesHotTiles ==
    TileHandler({"ProcessDiscardInvalidateTiles"}) =>
        \A k \in 1..Len(tileMgr.enqueued) :
            /\ tileMgr.enqueued[k].x \in 0..(KNOB_NUM_HOT_TILES_X - 1)
            /\ tileMgr.enqueued[k].y \in 0..(KNOB_NUM_HOT_TILES_Y - 1)

\* C39: ProcessClear and ProcessStoreTiles enqueue exactly one item, with a
\* copy of the descriptor, for each macrotile that overlaps the half-open
\* rectangle and none for any other; an empty rectangle enqueues nothing.
C39_ClearStoreOverlappingTiles ==
    (tileMgr.pc = "done" /\ tileMgr.handler \in {"ProcessClear", "ProcessStoreTiles"}) =>
        /\ \A k \in 1..Len(tileMgr.enqueued) :
              /\ TileOverlaps(tileMgr.rect, tileMgr.enqueued[k].x, tileMgr.enqueued[k].y)
              /\ tileMgr.enqueued[k].type = tileMgr.type
              /\ tileMgr.enqueued[k].desc = tileMgr.rect
              /\ \A j \in 1..Len(tileMgr.enqueued) :
                    (tileMgr.enqueued[j].x = tileMgr.enqueued[k].x
                     /\ tileMgr.enqueued[j].y = tileMgr.enqueued[k].y) => j = k
        /\ \A tx \in 0..KNOB_NUM_HOT_TILES_X, ty \in 0..KNOB_NUM_HOT_TILES_Y :
              TileOverlaps(tileMgr.rect, tx, ty) =>
                  \E k \in 1..Len(tileMgr.enqueued) :
                      tileMgr.enqueued[k].x = tx /\ tileMgr.enqueued[k].y = ty

\* C40: in the 16-wide build, the cut mask written to the assembler for the
\* upper 8 lanes of an indexed draw comes from a fetch of the same iteration:
\* when the upper-half fetch was skipped, no cut bit is forwarded.
C40_UpperCutMaskFromThisIteration ==
    (pc = "simd16-while" /\ pa.forwarded /\ ~pa.fetched_hi)
        => pa.cutIndices_hi = {}

\* Number of pa.Reset() calls recorded for the draw.
ResetCount(events) ==
    Cardinality({k \in 1..Len(events) : events[k].ev = "Reset"})

\* C32: every ProcessDraw invocation terminates: a draw that has entered the
\* instance loop reaches its return; leaving the do-while advances the fetch
\* cursor by exactly one batch width; the assembler is reset exactly once per
\* instance, when that instance is drained.
C32_DrawTerminates ==
    /\ [](pc \in {"instance", "while", "assemble", "nextprim"}
            => <>(pc = "done"))
    /\ [][(pc = "nextprim" /\ pc' = "while") => i' = i + KNOB_SIMD_WIDTH]_vars
    /\ [][(pc # "done" /\ instanceNum' # instanceNum)
            => /\ instanceNum' = instanceNum + 1
               /\ ~PA_HasWork(pa)
               /\ pa' = PA_Reset(pa)]_vars
    /\ [](pc \in {"instance", "while", "assemble", "nextprim", "done"}
            => ResetCount(log) = instanceNum)

\* A draw of two instances and more than one batch has returned.
C32_Witness ==
    /\ pc = "done"
    /\ work.numInstances = 2
    /\ work.numVerts > KNOB_SIMD_WIDTH
    /\ instanceNum = 2
    /\ ResetCount(log) = 2

====
